---- MODULE Spec2Model ----
(***************************************************************************)
(* Model of spotify-playlist-cli: the guarded apply protocol               *)
(* (src/playlist/apply.ts), the transform planners                         *)
(* (src/playlist/transform.ts) and the playlist commands that drive them.  *)
(*                                                                         *)
(* Track URIs are modelled as positive integers (the code only compares    *)
(* them for equality); 0 stands for a missing uri.  Snapshot tokens are    *)
(* positive integers, 0 stands for a missing / empty snapshot_id.          *)
(***************************************************************************)
EXTENDS Integers, Sequences, FiniteSets, TLC

VARIABLES
    pc,             \* position of the running invocation
    apply,          \* opts.apply
    force,          \* opts.force
    snapshotId,     \* opts.snapshotId (expectedSnapshot of the guard)
    beforeUris,     \* opts.beforeUris
    desiredUris,    \* opts.desiredUris
    droppedEpisodes,\* opts.droppedEpisodes
    remoteItems,    \* items of the playlist held by the remote service
    remoteSnap,     \* current snapshot token of the remote playlist
    edits,          \* number of edits made by another client so far
    calls,          \* gateway calls issued by the invocation, in order
    guardState,     \* what assertPlaylistSnapshotUnchanged did
    guardTok,       \* snapshot_id seen by the guard's re-fetch
    partIdx,        \* index of the next chunk of replacePlaylistTracks
    snapshot,       \* local `snapshot` of replacePlaylistTracks
    outcome,        \* "none" | "returned" | "error"
    errCode,        \* CliError code when outcome = "error"
    result,         \* PlaylistApplyResult when outcome = "returned"
    items,          \* planner input (PlaylistItemNormalized[])
    plan,           \* planner call: name and parameters
    planned,        \* planner output {uris, droppedEpisodes}
    cmd,            \* command invocation: name and options
    opts,           \* generateTrackPool: its options
    catalog,        \* the tracks the recommendation source can return
    genResult,      \* generateTrackPool: `result`, the accepted URIs
    seen,           \* generateTrackPool: `seen`
    keyCounts,      \* generateTrackPool: accepted URIs per musical key
    keyByUri,       \* generateTrackPool: fetched key per URI (NoKey: none)
    disableKeyDiversity,
    filterStats,    \* generateTrackPool: `filterStats`, flattened
    roundSeeds,     \* seeds of the next recommendation request
    staleRounds,    \* consecutive rounds without growth
    round,          \* loop counter of the generation rounds
    warnings,       \* kinds of warning pushed so far
    seedProfileQuery, \* "empty" | "targets"
    candidates,     \* candidates of the last fetched batch
    filteredCandidates, \* candidates that passed the source filters
    generated,      \* the GenerateResult returned
    profileAnswers, \* HTTP statuses answered to resolveSeedProfile's two lookups
    refreshed,      \* apiRequest: `refreshed`
    rateRetries,    \* apiRequest: `rateRetries`
    attempts,       \* apiRequest: the answers to the HTTP attempts made so far
    tokenCalls,     \* apiRequest: forceRefresh of each getUserAccessToken call
    waits,          \* apiRequest: the sleeps made so far, in ms
    store           \* the account store (AccountStoreV2)

applyVars == <<pc, apply, force, snapshotId, beforeUris, desiredUris, droppedEpisodes,
               calls, guardState, guardTok, partIdx, snapshot, outcome, errCode, result>>
remoteVars == <<remoteItems, remoteSnap, edits>>
planVars == <<items, plan, planned>>
genVars == <<opts, catalog, genResult, seen, keyCounts, keyByUri, disableKeyDiversity,
             filterStats, roundSeeds, staleRounds, round, warnings, seedProfileQuery,
             candidates, filteredCandidates, generated, profileAnswers>>
apiVars == <<refreshed, rateRetries, attempts, tokenCalls, waits>>
vars == <<applyVars, remoteVars, planVars, cmd, genVars, apiVars, store>>

----------------------------------------------------------------------------
(* Bounds of the model *)

NumUris == 2
MaxLen == 2
MaxExtraChunks == 2
MaxEdits == 1
MaxSnap == 2
MaxItems == 3
MaxAttrItems == 2
MaxGroup == 3
MaxKeep == 2
MaxRemote == 2
MaxBatch == 2

(* Program constants *)

ChunkSize == 100
NoUri == 0
NoSnap == 0

Uris == 1..NumUris
Markets == {"US", "DE"}

Min(a, b) == IF a < b THEN a ELSE b
Max(a, b) == IF a > b THEN a ELSE b

SeqsUpTo(S, n) == UNION {[1..k -> S] : k \in 0..n}

\* a list of n pairwise distinct track URIs (1, 2, ..., n)
LongList(n) == [i \in 1..n |-> i]

LongLens == {ChunkSize * k + r : k \in 1..MaxExtraChunks, r \in {0, 1}}

----------------------------------------------------------------------------
(* Items *)

\* a PlaylistItemNormalized as created by a write of a track URI
MkTrack(u) ==
    [kind |-> "track", uri |-> u, is_playable |-> "undef",
     markets_defined |-> FALSE, available_markets |-> {},
     popularity |-> <<>>, added_at |-> <<>>]

MkItem(k, u) == [MkTrack(u) EXCEPT !.kind = k]

\* the loop of toTrackOnly keeps, in order, the items that pass both `continue`
\* tests and counts the items stopped by each test
\* mutant: items of kind unknown are counted with the episodes
IsEpisode_orUnknown(item) == item.kind \in {"episode", "unknown"}

IsEpisode(item) == item.kind = "episode"

\* mutant: the kind test is missing, only the uri is looked at
IsUnknown_uriOnly(item) == ~IsEpisode(item) /\ item.uri = NoUri

IsUnknown(item) == ~IsEpisode(item) /\ (item.kind # "track" \/ item.uri = NoUri)
IsTrack(item) == ~IsEpisode(item) /\ ~IsUnknown(item)

UrisOf(its) == [i \in 1..Len(its) |-> its[i].uri]

toTrackOnly(its) ==
    [uris |-> UrisOf(SelectSeq(its, IsTrack)),
     droppedEpisodes |-> Len(SelectSeq(its, IsEpisode)),
     droppedUnknown |-> Len(SelectSeq(its, IsUnknown))]

trackUrisFromItems(its) == toTrackOnly(its)

----------------------------------------------------------------------------
(* transform.ts: the planners *)

\* mutant: the second half of the exchange is lost
Swap_overwrite(s, a, b) == [s EXCEPT ![a] = s[b]]

Swap(s, a, b) == [s EXCEPT ![a] = s[b], ![b] = s[a]]

\* shuffleInPlace: i is the 0-based loop index running from length-1 down to
\* 1, js[i] is the value of Math.floor(random() * (i + 1)) drawn at step i
RECURSIVE shuffleFrom(_, _, _)
shuffleFrom(s, js, i) ==
    IF i <= 0 THEN s
    ELSE shuffleFrom(Swap(s, i + 1, js[i] + 1), js, i - 1)

shuffleInPlace(s, js) == shuffleFrom(s, js, Len(s) - 1)

\* the draws a random source can produce for a list of n elements
RandomDraws(n) == {js \in [1..(n - 1) -> 0..(n - 1)] : \A i \in 1..(n - 1) : js[i] <= i}

Shuffles(s) == {shuffleInPlace(s, js) : js \in RandomDraws(Len(s))}

\* chunks.flatMap((chunk) => shuffleInPlace([...chunk], random))
RECURSIVE ShuffledChunks(_)
ShuffledChunks(chunks) ==
    IF chunks = <<>> THEN {<<>>}
    ELSE {a \o b : a \in Shuffles(Head(chunks)), b \in ShuffledChunks(Tail(chunks))}

RECURSIVE chunkBySizeFrom(_, _, _)
chunkBySizeFrom(its, size, i) ==
    IF i >= Len(its) THEN <<>>
    ELSE <<SubSeq(its, i + 1, Min(i + size, Len(its)))>> \o chunkBySizeFrom(its, size, i + size)

chunkBySize(its, size) == chunkBySizeFrom(its, size, 0)

\* mutant: the remainder goes to the last chunks instead of the first
RECURSIVE chunkByCountFrom_lateRemainder(_, _, _, _, _, _)
chunkByCountFrom_lateRemainder(its, count, base, remainder, cursor, i) ==
    IF i >= count THEN <<>>
    ELSE LET size == base + (IF i >= count - remainder THEN 1 ELSE 0)
         IN IF size <= 0
            THEN chunkByCountFrom_lateRemainder(its, count, base, remainder, cursor, i + 1)
            ELSE <<SubSeq(its, cursor + 1, Min(cursor + size, Len(its)))>>
                 \o chunkByCountFrom_lateRemainder(its, count, base, remainder,
                                                   cursor + size, i + 1)

RECURSIVE chunkByCountFrom(_, _, _, _, _, _)
chunkByCountFrom(its, count, base, remainder, cursor, i) ==
    IF i >= count THEN <<>>
    ELSE LET size == base + (IF remainder > 0 THEN 1 ELSE 0)
             rest == Max(0, remainder - 1)
         IN IF size <= 0
            THEN chunkByCountFrom(its, count, base, rest, cursor, i + 1)
            ELSE <<SubSeq(its, cursor + 1, Min(cursor + size, Len(its)))>>
                 \o chunkByCountFrom(its, count, base, rest, cursor + size, i + 1)

chunkByCount(its, count) ==
    IF count <= 1 THEN <<its>>
    ELSE LET out == chunkByCountFrom(its, count, Len(its) \div count, Len(its) % count, 0, 0)
         IN IF Len(out) > 0 THEN out ELSE <<its>>

\* the URI lists planShuffle can return; groupSize = 0 and groups = 0 stand for
\* an option that is not given (both are falsy in the source)
planShuffleUris(its, groupSize, groups) ==
    LET filtered == toTrackOnly(its) IN
    IF Len(filtered.uris) <= 1 THEN {filtered.uris}
    ELSE IF groupSize # 0 /\ groupSize > 0
         THEN ShuffledChunks(chunkBySize(filtered.uris, groupSize))
    ELSE IF groups # 0 /\ groups > 0
         THEN ShuffledChunks(chunkByCount(filtered.uris, groups))
    ELSE Shuffles(filtered.uris)

RECURSIVE dedupFirst(_, _, _)
dedupFirst(uris, seenUris, out) ==
    IF uris = <<>> THEN out
    ELSE IF Head(uris) \in seenUris THEN dedupFirst(Tail(uris), seenUris, out)
    ELSE dedupFirst(Tail(uris), seenUris \cup {Head(uris)}, Append(out, Head(uris)))

\* the backward loop of keep = "last": i is the 1-based position visited
RECURSIVE dedupLastRev(_, _, _, _)
dedupLastRev(uris, i, seenUris, outRev) ==
    IF i < 1 THEN outRev
    ELSE IF uris[i] \in seenUris THEN dedupLastRev(uris, i - 1, seenUris, outRev)
    ELSE dedupLastRev(uris, i - 1, seenUris \cup {uris[i]}, Append(outRev, uris[i]))

\* mutant: the list is returned as it is
Reverse_identity(s) == s

Reverse(s) == [i \in 1..Len(s) |-> s[Len(s) + 1 - i]]

\* mutant: outRev is returned without being reversed
planDedup_noReverse(its, keep) ==
    LET filtered == toTrackOnly(its) IN
    IF keep = "first"
    THEN [uris |-> dedupFirst(filtered.uris, {}, <<>>),
          droppedEpisodes |-> filtered.droppedEpisodes]
    ELSE [uris |-> dedupLastRev(filtered.uris, Len(filtered.uris), {}, <<>>),
          droppedEpisodes |-> filtered.droppedEpisodes]

planDedup(its, keep) ==
    LET filtered == toTrackOnly(its) IN
    IF keep = "first"
    THEN [uris |-> dedupFirst(filtered.uris, {}, <<>>),
          droppedEpisodes |-> filtered.droppedEpisodes]
    ELSE [uris |-> Reverse(dedupLastRev(filtered.uris, Len(filtered.uris), {}, <<>>)),
          droppedEpisodes |-> filtered.droppedEpisodes]

\* market?.toUpperCase(); "" stands for no market
toUpperCase(m) == IF m = "us" THEN "US" ELSE IF m = "de" THEN "DE" ELSE m

\* mutant: the market test does not ask for a non-empty list
RECURSIVE planCleanupFrom_emptyList(_, _, _)
planCleanupFrom_emptyList(its, m, acc) ==
    IF its = <<>> THEN acc
    ELSE LET item == Head(its) IN
         IF item.kind = "episode"
         THEN planCleanupFrom_emptyList(Tail(its), m, [acc EXCEPT !.droppedEpisodes = @ + 1])
         ELSE IF item.kind # "track" \/ item.uri = NoUri
         THEN planCleanupFrom_emptyList(Tail(its), m, acc)
         ELSE IF item.is_playable = "false"
         THEN planCleanupFrom_emptyList(Tail(its), m, acc)
         ELSE IF /\ m # ""
                 /\ item.markets_defined
                 /\ m \notin item.available_markets
         THEN planCleanupFrom_emptyList(Tail(its), m, acc)
         ELSE planCleanupFrom_emptyList(Tail(its), m, [acc EXCEPT !.uris = Append(@, item.uri)])

RECURSIVE planCleanupFrom(_, _, _)
planCleanupFrom(its, m, acc) ==
    IF its = <<>> THEN acc
    ELSE LET item == Head(its) IN
         IF item.kind = "episode"
         THEN planCleanupFrom(Tail(its), m, [acc EXCEPT !.droppedEpisodes = @ + 1])
         ELSE IF item.kind # "track" \/ item.uri = NoUri
         THEN planCleanupFrom(Tail(its), m, acc)
         ELSE IF item.is_playable = "false"
         THEN planCleanupFrom(Tail(its), m, acc)
         ELSE IF /\ m # ""
                 /\ item.markets_defined
                 /\ Cardinality(item.available_markets) > 0
                 /\ m \notin item.available_markets
         THEN planCleanupFrom(Tail(its), m, acc)
         ELSE planCleanupFrom(Tail(its), m, [acc EXCEPT !.uris = Append(@, item.uri)])

planCleanup(its, market) ==
    planCleanupFrom(its, toUpperCase(market), [uris |-> <<>>, droppedEpisodes |-> 0])

\* Date.parse of an added_at string: the model's added_at is a day number
DateParse(d) == d * 86400000

\* mutant: a missing popularity counts as 0
sortKey_missingZero(item, by) ==
    IF by = "added_at"
    THEN (IF item.added_at # <<>> THEN DateParse(item.added_at[1]) ELSE 0)
    ELSE (IF item.popularity # <<>> THEN item.popularity[1] ELSE 0)

sortKey(item, by) ==
    IF by = "added_at"
    THEN (IF item.added_at # <<>> THEN DateParse(item.added_at[1]) ELSE 0)
    ELSE (IF item.popularity # <<>> THEN item.popularity[1] ELSE 0 - 1)

\* the comparator of planSort
sortCompare(a, b, by, order) ==
    LET direction == IF order = "asc" THEN 1 ELSE 0 - 1 IN
    (sortKey(a, by) - sortKey(b, by)) * direction

\* Array.prototype.sort is stable: an element goes behind every element that
\* does not compare greater than it
RECURSIVE insertSorted(_, _, _, _)
insertSorted(sorted, x, by, order) ==
    IF sorted = <<>> THEN <<x>>
    ELSE IF sortCompare(Head(sorted), x, by, order) > 0 THEN <<x>> \o sorted
    ELSE <<Head(sorted)>> \o insertSorted(Tail(sorted), x, by, order)

RECURSIVE stableSort(_, _, _, _)
stableSort(its, by, order, acc) ==
    IF its = <<>> THEN acc
    ELSE stableSort(Tail(its), by, order, insertSorted(acc, Head(its), by, order))

IsSortable(item) == item.kind = "track" /\ item.uri # NoUri

planSort(its, by, order) ==
    LET drop == toTrackOnly(its)
        trackItems == SelectSeq(its, IsSortable)
        sorted == stableSort(trackItems, by, order, <<>>)
    IN [uris |-> UrisOf(sorted), droppedEpisodes |-> drop.droppedEpisodes]

\* opts.keep of a trim is the number p.n + p.half / 2
IsInteger(p) == p.half = 0
MathFloor(p) == p.n

\* mutant: no early return for n = 0, so from = end takes slice(-0)
planTrim_noZeroCase(its, keep, from) ==
    LET filtered == toTrackOnly(its)
        n == Max(0, keep)
        len == Len(filtered.uris)
    IN IF from = "end"
       THEN [uris |-> IF n = 0 THEN filtered.uris
                      ELSE SubSeq(filtered.uris, Max(len - n, 0) + 1, len),
             droppedEpisodes |-> filtered.droppedEpisodes]
       ELSE [uris |-> SubSeq(filtered.uris, 1, Min(n, len)),
             droppedEpisodes |-> filtered.droppedEpisodes]

\* keep is Math.floor(keep) of the source
planTrim(its, keep, from) ==
    LET filtered == toTrackOnly(its)
        n == Max(0, keep)
        len == Len(filtered.uris)
    IN IF n = 0
       THEN [uris |-> <<>>, droppedEpisodes |-> filtered.droppedEpisodes]
       ELSE IF from = "end"
       THEN [uris |-> SubSeq(filtered.uris, Max(len - n, 0) + 1, len),
             droppedEpisodes |-> filtered.droppedEpisodes]
       ELSE [uris |-> SubSeq(filtered.uris, 1, Min(n, len)),
             droppedEpisodes |-> filtered.droppedEpisodes]

\* planReverse: the track URIs in reversed order
planReverse(its) ==
    LET filtered == toTrackOnly(its) IN
    [uris |-> Reverse(filtered.uris), droppedEpisodes |-> filtered.droppedEpisodes]

----------------------------------------------------------------------------
(* apply.ts *)

\* mutant: the slice takes one element too many, so chunks overlap
RECURSIVE chunkFrom_overlap(_, _, _)
chunkFrom_overlap(its, size, i) ==
    IF i >= Len(its) THEN <<>>
    ELSE <<SubSeq(its, i + 1, Min(i + size + 1, Len(its)))>> \o chunkFrom_overlap(its, size, i + size)

RECURSIVE chunkFrom(_, _, _)
chunkFrom(its, size, i) ==
    IF i >= Len(its) THEN <<>>
    ELSE <<SubSeq(its, i + 1, Min(i + size, Len(its)))>> \o chunkFrom(its, size, i + size)

\* chunk(items, size): i is the 0-based loop index of the source
chunk(its, size) == chunkFrom(its, size, 0)

\* opts.beforeUris.some((uri, idx) => uri !== opts.desiredUris[idx]); an index
\* past the end of desiredUris reads undefined, which differs from every uri
someDiffers(b, d) ==
    \E idx \in 1..Len(b) : idx > Len(d) \/ b[idx] # d[idx]

\* mutant: only the lengths are compared
changedOf_lengthOnly(b, d) == Len(b) # Len(d)

changedOf(b, d) == Len(b) # Len(d) \/ someDiffers(b, d)

\* arraysEqual: false on the first differing index, true when the loop ends
arraysEqual(a, b) ==
    IF Len(a) # Len(b) THEN FALSE ELSE \A i \in 1..Len(a) : a[i] = b[i]

\* mutant: && in place of ||
previewOnly_and(ap, ch) == ~ap /\ ~ch

\* mutant: the unchanged case is not short-circuited
previewOnly_applyOnly(ap, ch) == ~ap

\* if (!opts.apply || !changed) return preview
previewOnly(ap, ch) == ~ap \/ ~ch

\* mutant: the guard is never run
guardNeeded_never(f) == FALSE

\* if (!opts.force) await assertPlaylistSnapshotUnchanged(...)
guardNeeded(f) == ~f

\* mutant: a differing token does not abort
snapshotMismatch_never(current, expected) == FALSE

\* mutant: only a token older than the expected one counts as a mismatch
snapshotMismatch_olderOnly(current, expected) == current # NoSnap /\ current < expected

\* mutant: the comparison is inverted
snapshotMismatch_inverted(current, expected) == current # NoSnap /\ current = expected

\* if (current.snapshot_id && current.snapshot_id !== opts.expectedSnapshot) throw
snapshotMismatch(current, expected) == current # NoSnap /\ current # expected

previewOf(b, d, dropped) ==
    [changed |-> changedOf(b, d),
     applied |-> FALSE,
     before_count |-> Len(b),
     after_count |-> Len(d),
     removed |-> Max(0, Len(b) - Len(d)),
     dropped_episodes |-> dropped,
     snapshot_id |-> NoSnap]

ApiErrors == {"NETWORK", "NOT_FOUND", "SPOTIFY_API"}

Call(m, p, b) == [method |-> m, path |-> p, body |-> b]

IsWrite(c) == c.method \in {"PUT", "POST", "DELETE"}

Writes(cs) == SelectSeq(cs, IsWrite)

\* the remote after a "replace all items" call and after an "append items" call
Replaced(body) == [i \in 1..Len(body) |-> MkTrack(body[i])]

\* mutant: a later chunk replaces the items instead of being appended
Appended_replacing(its, body) == Replaced(body)

Appended(its, body) == its \o Replaced(body)

\* snapshot_id field of a successful write response: the new token, or missing
WriteTokens(newSnap) == {newSnap, NoSnap}

Fail(code) ==
    /\ pc' = "done"
    /\ outcome' = "error"
    /\ errCode' = code

\* applyPlaylistPlan up to its first await
ApplyEntry ==
    /\ pc = "apply_entry"
    /\ LET preview == previewOf(beforeUris, desiredUris, droppedEpisodes) IN
       /\ result' = preview
       /\ IF previewOnly(apply, preview.changed)
          THEN /\ pc' = "done"
               /\ outcome' = "returned"
          ELSE /\ pc' = IF guardNeeded(force) THEN "guard" ELSE "put"
               /\ outcome' = outcome
    /\ UNCHANGED <<apply, force, snapshotId, beforeUris, desiredUris, droppedEpisodes,
                   calls, guardState, guardTok, partIdx, snapshot, errCode>>
    /\ UNCHANGED <<remoteVars, planVars, cmd, genVars, apiVars, store>>

\* assertPlaylistSnapshotUnchanged
Guard ==
    /\ pc = "guard"
    /\ IF snapshotId = NoSnap
       THEN /\ guardState' = "skipped"
            /\ pc' = "put"
            /\ UNCHANGED <<calls, guardTok, outcome, errCode>>
       ELSE /\ calls' = Append(calls, Call("GET", "playlist", <<>>))
            /\ \/ \E e \in ApiErrors :
                    /\ guardState' = "error"
                    /\ Fail(e)
                    /\ UNCHANGED guardTok
               \/ \E current \in {remoteSnap, NoSnap} :
                    /\ guardTok' = current
                    /\ IF snapshotMismatch(current, snapshotId)
                       THEN /\ guardState' = "failed"
                            /\ Fail("INVALID_USAGE")
                       ELSE /\ guardState' = "passed"
                            /\ pc' = "put"
                            /\ UNCHANGED <<outcome, errCode>>
    /\ UNCHANGED <<apply, force, snapshotId, beforeUris, desiredUris, droppedEpisodes,
                   partIdx, snapshot, result>>
    /\ UNCHANGED <<remoteVars, planVars, cmd, genVars, apiVars, store>>

\* mutant: the preview is returned as it is
Finish_preview(snap) ==
    /\ pc' = "done"
    /\ outcome' = "returned"
    /\ result' = [result EXCEPT !.snapshot_id = snap]

\* return { ...preview, applied: true, snapshot_id: snapshot }
Finish(snap) ==
    /\ pc' = "done"
    /\ outcome' = "returned"
    /\ result' = [result EXCEPT !.applied = TRUE, !.snapshot_id = snap]

\* a write call that fails: the error propagates; a call that got no answer
\* (timeout, NETWORK) may or may not have been carried out by the remote
WriteFails(after) ==
    \E e \in ApiErrors :
        /\ Fail(e)
        /\ \/ UNCHANGED remoteVars
           \/ /\ e = "NETWORK"
              /\ remoteItems' = after
              /\ remoteSnap' = remoteSnap + 1
              /\ UNCHANGED edits
        /\ UNCHANGED <<partIdx, snapshot, result>>

\* replacePlaylistTracks: the PUT of the first chunk (of [] when there is none)
ReplacePut ==
    /\ pc = "put"
    /\ LET parts == chunk(desiredUris, ChunkSize)
           body == IF Len(parts) = 0 THEN <<>> ELSE parts[1]
       IN
       /\ calls' = Append(calls, Call("PUT", "items", body))
       /\ \/ WriteFails(Replaced(body))
          \/ \E tok \in WriteTokens(remoteSnap + 1) :
               /\ remoteItems' = Replaced(body)
               /\ remoteSnap' = remoteSnap + 1
               /\ UNCHANGED edits
               /\ snapshot' = tok
               /\ IF Len(parts) <= 1
                  THEN /\ Finish(tok)
                       /\ UNCHANGED <<partIdx, errCode>>
                  ELSE /\ pc' = "post"
                       /\ partIdx' = 2
                       /\ UNCHANGED <<outcome, errCode, result>>
    /\ UNCHANGED <<apply, force, snapshotId, beforeUris, desiredUris, droppedEpisodes,
                   guardState, guardTok>>
    /\ UNCHANGED <<planVars, cmd, genVars, apiVars, store>>

\* replacePlaylistTracks: the POST of chunk parts[i], i >= 1 (partIdx is 1-based)
ReplacePost ==
    /\ pc = "post"
    /\ LET parts == chunk(desiredUris, ChunkSize)
           body == parts[partIdx]
       IN
       /\ calls' = Append(calls, Call("POST", "items", body))
       /\ \/ WriteFails(Appended(remoteItems, body))
          \/ \E tok \in WriteTokens(remoteSnap + 1) :
               /\ remoteItems' = Appended(remoteItems, body)
               /\ remoteSnap' = remoteSnap + 1
               /\ UNCHANGED edits
               /\ LET snap == IF tok # NoSnap THEN tok ELSE snapshot IN
                  /\ snapshot' = snap
                  /\ IF partIdx + 1 > Len(parts)
                     THEN /\ Finish(snap)
                          /\ UNCHANGED <<partIdx, errCode>>
                     ELSE /\ pc' = "post"
                          /\ partIdx' = partIdx + 1
                          /\ UNCHANGED <<outcome, errCode, result>>
    /\ UNCHANGED <<apply, force, snapshotId, beforeUris, desiredUris, droppedEpisodes,
                   guardState, guardTok>>
    /\ UNCHANGED <<planVars, cmd, genVars, apiVars, store>>

\* another client edits the playlist: it adds a track, the token changes
OtherWriter ==
    /\ pc # "done"
    /\ ~cmd.toNew \/ pc = "append"
    /\ edits < MaxEdits
    /\ \E u \in Uris : remoteItems' = Append(remoteItems, MkTrack(u))
    /\ remoteSnap' = remoteSnap + 1
    /\ edits' = edits + 1
    /\ UNCHANGED <<applyVars, planVars, cmd, genVars, apiVars, store>>

NoPlan ==
    [name |-> "none", groupSize |-> 0, groups |-> 0, keep |-> "first", market |-> "",
     by |-> "popularity", order |-> "asc", n |-> 0, half |-> 0, from |-> "start"]
NoPlanned == [uris |-> <<>>, droppedEpisodes |-> 0]
NoCmd ==
    [name |-> "none", refOk |-> TRUE, targetOk |-> TRUE, inputOk |-> TRUE,
     optsOk |-> TRUE,
     toNew |-> FALSE, to |-> FALSE, mode |-> "", hasName |-> FALSE,
     src |-> <<>>, srcEpisodes |-> 0]
NoResult == previewOf(<<>>, <<>>, 0)

\* the state of generateTrackPool before it runs
NoKey == 0 - 1
NoOpts ==
    [seedTrackUris |-> <<>>, targetSize |-> 0, market |-> "", minPopularity |-> 0,
     maxDurationMs |-> 0, excludeTrackUris |-> {}, seedProfileEnabled |-> FALSE,
     diversifyKeys |-> FALSE, maxKeySharePercent |-> 0, maxRounds |-> 0,
     stagnationLimit |-> 0, nonInteger |-> {}]
NoFilterStats ==
    [dropped_noname |-> 0, dropped_excluded |-> 0, dropped_unplayable |-> 0,
     dropped_market |-> 0, dropped_popularity |-> 0, dropped_duration |-> 0,
     key_diversity_enabled |-> FALSE, dropped_by_key |-> 0, key_cap |-> 0,
     disabled_by_api |-> FALSE, seed_profile_enabled |-> FALSE,
     seed_profile_used |-> FALSE, stagnation_by_filters |-> 0]
NoGenerated ==
    [seedCount |-> 0, generatedCount |-> 0, shortfall |-> 0, trackUris |-> <<>>,
     filteredCount |-> 0]

IdleGen ==
    /\ opts = NoOpts
    /\ catalog = {}
    /\ genResult = <<>>
    /\ seen = {}
    /\ keyCounts = <<>>
    /\ keyByUri = <<>>
    /\ disableKeyDiversity = FALSE
    /\ filterStats = NoFilterStats
    /\ roundSeeds = <<>>
    /\ staleRounds = 0
    /\ round = 0
    /\ warnings = {}
    /\ seedProfileQuery = "empty"
    /\ candidates = <<>>
    /\ filteredCandidates = <<>>
    /\ generated = NoGenerated
    /\ profileAnswers = <<>>

\* no gateway call of its own is modelled
IdleApi ==
    /\ refreshed = FALSE
    /\ rateRetries = 0
    /\ attempts = <<>>
    /\ tokenCalls = <<>>
    /\ waits = <<>>

\* emptyStore()
NoStore == [active_account_id |-> "", accounts |-> <<>>]

IdleStore == store = NoStore

SmallLists == SeqsUpTo(Uris, MaxLen)
DesiredLists == SmallLists \cup {LongList(n) : n \in LongLens}

\* a direct call of applyPlaylistPlan with arbitrary options
InitApply ==
    /\ pc = "apply_entry"
    /\ apply \in BOOLEAN
    /\ force \in BOOLEAN
    /\ snapshotId \in 0..MaxSnap
    /\ beforeUris \in SmallLists
    /\ desiredUris \in DesiredLists
    /\ droppedEpisodes \in {0, 1}
    /\ remoteItems = Replaced(beforeUris)
    /\ remoteSnap = 1
    /\ edits = 0
    /\ calls = <<>>
    /\ guardState = "notrun"
    /\ guardTok = NoSnap
    /\ partIdx = 1
    /\ snapshot = NoSnap
    /\ outcome = "none"
    /\ errCode = ""
    /\ result = NoResult
    /\ items = <<>>
    /\ plan = NoPlan
    /\ planned = NoPlanned
    /\ cmd = NoCmd
    /\ IdleGen
    /\ IdleApi
    /\ IdleStore

ApplyStep == ApplyEntry \/ Guard \/ ReplacePut \/ ReplacePost

NextApply == ApplyStep \/ OtherWriter

SpecApply == InitApply /\ [][NextApply]_vars

----------------------------------------------------------------------------
(* The planners on bounded inputs *)

Kinds == {"track", "episode", "unknown"}

\* items that carry no attributes: every kind, with and without a uri
PlainItems ==
    {MkItem("track", u) : u \in Uris \cup {NoUri}}
        \cup {MkItem(k, u) : k \in {"episode", "unknown"}, u \in {NoUri, 1}}

NonTracks == {MkItem("episode", 1), MkItem("unknown", 1)}

\* tracks with the attributes planCleanup reads
CleanupItems ==
    {[MkTrack(u) EXCEPT !.is_playable = p, !.markets_defined = TRUE, !.available_markets = am] :
        u \in Uris, p \in {"undef", "true", "false"}, am \in {{}, {"US"}, {"DE"}}}
        \cup {[MkTrack(u) EXCEPT !.is_playable = p] : u \in Uris, p \in {"undef", "true", "false"}}

\* tracks with the attributes planSort reads
SortItems ==
    {[MkTrack(u) EXCEPT !.popularity = pop, !.added_at = at] :
        u \in Uris, pop \in {<<>>, <<0>>, <<50>>}, at \in {<<>>, <<0 - 1>>, <<1>>}}

PlanCalls ==
    {[NoPlan EXCEPT !.name = "shuffle", !.groupSize = gs, !.groups = g] :
        gs \in 0..MaxGroup, g \in 0..MaxGroup}
    \cup {[NoPlan EXCEPT !.name = "dedup", !.keep = k] : k \in {"first", "last"}}
    \cup {[NoPlan EXCEPT !.name = "cleanup", !.market = m] : m \in {"", "US", "us"}}
    \cup {[NoPlan EXCEPT !.name = "sort", !.by = b, !.order = o] :
        b \in {"added_at", "popularity"}, o \in {"asc", "desc"}}
    \cup {[NoPlan EXCEPT !.name = "trim", !.n = n, !.half = h, !.from = f] :
        n \in (0 - 1)..MaxKeep, h \in {0, 1}, f \in {"start", "end"}}
    \cup {[NoPlan EXCEPT !.name = "reverse"]}

\* the inputs a planner is run on: the attributes it does not read are absent
InputsFor(name) ==
    IF name = "cleanup" THEN SeqsUpTo(CleanupItems \cup NonTracks, MaxAttrItems)
    ELSE IF name = "sort" THEN SeqsUpTo(SortItems \cup NonTracks, MaxAttrItems)
    ELSE SeqsUpTo(PlainItems, MaxItems)

IdleApply ==
    /\ apply = FALSE
    /\ force = FALSE
    /\ snapshotId = NoSnap
    /\ beforeUris = <<>>
    /\ desiredUris = <<>>
    /\ droppedEpisodes = 0
    /\ calls = <<>>
    /\ guardState = "notrun"
    /\ guardTok = NoSnap
    /\ partIdx = 1
    /\ snapshot = NoSnap
    /\ outcome = "none"
    /\ errCode = ""
    /\ result = NoResult

InitPlan ==
    /\ pc = "plan"
    /\ plan \in PlanCalls
    /\ items \in InputsFor(plan.name)
    /\ planned = NoPlanned
    /\ IdleApply
    /\ remoteItems = <<>>
    /\ remoteSnap = 1
    /\ edits = 0
    /\ cmd = NoCmd
    /\ IdleGen
    /\ IdleApi
    /\ IdleStore

Planned(out) ==
    /\ planned' = out
    /\ pc' = "planned"
    /\ UNCHANGED <<apply, force, snapshotId, beforeUris, desiredUris, droppedEpisodes,
                   calls, guardState, guardTok, partIdx, snapshot, outcome, errCode, result>>
    /\ UNCHANGED <<items, plan, remoteVars, cmd, genVars, apiVars, store>>

RunShuffle ==
    /\ pc = "plan" /\ plan.name = "shuffle"
    /\ \E uris \in planShuffleUris(items, plan.groupSize, plan.groups) :
          Planned([uris |-> uris, droppedEpisodes |-> toTrackOnly(items).droppedEpisodes])

RunDedup ==
    /\ pc = "plan" /\ plan.name = "dedup"
    /\ Planned(planDedup(items, plan.keep))

RunCleanup ==
    /\ pc = "plan" /\ plan.name = "cleanup"
    /\ Planned(planCleanup(items, plan.market))

RunSort ==
    /\ pc = "plan" /\ plan.name = "sort"
    /\ Planned(planSort(items, plan.by, plan.order))

RunTrim ==
    /\ pc = "plan" /\ plan.name = "trim"
    /\ Planned(planTrim(items, MathFloor(plan), plan.from))

RunReverse ==
    /\ pc = "plan" /\ plan.name = "reverse"
    /\ Planned(planReverse(items))

NextPlan == RunShuffle \/ RunDedup \/ RunCleanup \/ RunSort \/ RunTrim \/ RunReverse

SpecPlan == InitPlan /\ [][NextPlan]_vars

\* every gateway call is bounded by its timeout, so a started invocation
\* always takes its next step
SpecApplyLive == SpecApply /\ WF_vars(ApplyStep)

----------------------------------------------------------------------------
(* Properties of the guarded apply protocol *)

TrackUris(its) == toTrackOnly(its).uris

NoWrites == Writes(calls) = <<>>

NumSlices(n) == IF n = 0 THEN 1 ELSE (n + ChunkSize - 1) \div ChunkSize

Slice(d, k) == SubSeq(d, ChunkSize * (k - 1) + 1, Min(ChunkSize * k, Len(d)))

AllWritten == Len(Writes(calls)) = NumSlices(Len(desiredUris))

PreviewOnly == outcome = "returned" /\ ~result.applied /\ NoWrites
GuardFailed == outcome = "error" /\ NoWrites
Applied == outcome = "returned" /\ result.applied /\ AllWritten
WriteFailed == outcome = "error" /\ ~NoWrites

\* C2: applyPlan with apply=false, or with beforeUris equal to desiredUris,
\* returns applied=false and makes no remote call at all, whatever force and
\* expectedSnapshot are: it goes from its entry straight to its return.
Th_C2 ==
    (~apply \/ beforeUris = desiredUris) =>
        /\ calls = <<>>
        /\ pc \in {"apply_entry", "done"}
        /\ pc = "done" => (outcome = "returned" /\ result.applied = FALSE)
        /\ remoteItems = Replaced(beforeUris) \/ edits > 0

W_C2 ==
    /\ pc = "done" /\ apply /\ force /\ snapshotId # NoSnap
    /\ beforeUris = desiredUris /\ Len(beforeUris) > 0
    /\ outcome = "returned" /\ ~result.applied

\* C3: apply=true, changed=true, force=false: when the guard re-fetched a
\* snapshot token that differs from expectedSnapshot the call fails with
\* INVALID_USAGE and no PUT or POST has been issued.
Th_C3 ==
    (/\ apply /\ beforeUris # desiredUris /\ ~force
     /\ guardState \in {"passed", "failed"}
     /\ guardTok # NoSnap /\ guardTok # snapshotId) =>
        /\ pc = "done" /\ outcome = "error" /\ errCode = "INVALID_USAGE"
        /\ NoWrites
        /\ guardState = "failed"

W_C3 ==
    /\ pc = "done" /\ guardState = "failed" /\ edits = 1
    /\ snapshotId = 1 /\ guardTok = 2 /\ errCode = "INVALID_USAGE"

\* C4 as stated: a non-forced write happens only after the guard re-fetched
\* the remote token and found it equal to expectedSnapshot.
Cx_C4 ==
    (~force /\ ~NoWrites) =>
        /\ guardState = "passed"
        /\ guardTok = snapshotId
        /\ Head(calls).method = "GET"

\* C4 amended: a non-forced write happens only after the guard returned
\* normally: with an expectedSnapshot, after the re-fetch (the first call)
\* answered with a token equal to expectedSnapshot or with no token at all;
\* without an expectedSnapshot the guard makes no re-fetch.
Th_C4 ==
    (~force /\ ~NoWrites) =>
        \/ /\ snapshotId = NoSnap
           /\ guardState = "skipped"
           /\ Writes(calls) = calls
        \/ /\ snapshotId # NoSnap
           /\ guardState = "passed"
           /\ guardTok \in {snapshotId, NoSnap}
           /\ Head(calls) = Call("GET", "playlist", <<>>)
           /\ Writes(calls) = Tail(calls)

W_C4 ==
    /\ ~force /\ ~NoWrites /\ snapshotId # NoSnap
    /\ guardState = "passed" /\ guardTok = snapshotId

\* C5: in every ApplyResult returned, applied=true implies that changed was
\* true, that apply was requested, and that force was set or the snapshot
\* guard returned without raising.
Th_C5 ==
    (outcome = "returned" /\ result.applied) =>
        /\ result.changed
        /\ beforeUris # desiredUris
        /\ apply
        /\ force \/ guardState \in {"skipped", "passed"}

W_C5 ==
    /\ outcome = "returned" /\ result.applied /\ ~force
    /\ guardState = "passed" /\ guardTok = snapshotId

\* C6: the writes are the consecutive slices of at most 100 URIs of
\* desiredUris in order: one PUT with the first slice (the empty list when
\* desiredUris is empty), then one POST per further slice; when applyPlan
\* returns applied=true all slices were sent and, with no other writer, the
\* remote track sequence equals desiredUris.
Th_C6 ==
    LET W == Writes(calls) IN
    /\ Len(W) <= NumSlices(Len(desiredUris))
    /\ \A k \in 1..Len(W) :
          /\ W[k].method = (IF k = 1 THEN "PUT" ELSE "POST")
          /\ W[k].path = "items"
          /\ W[k].body = Slice(desiredUris, k)
          /\ Len(W[k].body) <= ChunkSize
    /\ (outcome = "returned" /\ result.applied) =>
          /\ AllWritten
          /\ edits = 0 => TrackUris(remoteItems) = desiredUris

W_C6 ==
    /\ outcome = "returned" /\ result.applied /\ edits = 0
    /\ Len(desiredUris) = 2 * ChunkSize + 1
    /\ Len(Writes(calls)) = 3

\* C7 as stated: a finished invocation is PreviewOnly, GuardFailed or
\* Applied, and one that issued a write is Applied.
Cx_C7 ==
    pc = "done" =>
        /\ PreviewOnly \/ GuardFailed \/ Applied
        /\ ~NoWrites => Applied

C7Outcomes ==
    pc = "done" =>
        /\ PreviewOnly \/ GuardFailed \/ Applied \/ WriteFailed
        /\ ~(PreviewOnly /\ GuardFailed) /\ ~(PreviewOnly /\ Applied)
        /\ ~(PreviewOnly /\ WriteFailed) /\ ~(GuardFailed /\ Applied)
        /\ ~(GuardFailed /\ WriteFailed) /\ ~(Applied /\ WriteFailed)
        /\ ~NoWrites => (Applied \/ WriteFailed)
        /\ NoWrites => (PreviewOnly \/ GuardFailed)

\* C7 amended: every invocation ends, in exactly one of four outcomes:
\* PreviewOnly (applied=false, no write), GuardFailed (error, no write),
\* Applied (applied=true after all chunk writes) or WriteFailed (a write call
\* raised an error, which propagates); an invocation that issued its first
\* write ends in Applied or WriteFailed.
Th_C7 == []C7Outcomes /\ <>(pc = "done")

W_C7 == pc = "done" /\ WriteFailed /\ Len(Writes(calls)) = 2

\* C8: changed is true exactly when beforeUris and desiredUris differ in
\* length or at some position; a reordering of the same URIs is a change,
\* element-wise equal sequences are not.
Th_C8 ==
    pc # "apply_entry" =>
        /\ result.changed = (beforeUris # desiredUris)
        /\ result.changed = ~arraysEqual(beforeUris, desiredUris)

W_C8 ==
    /\ pc = "done" /\ result.changed
    /\ Len(beforeUris) = 2 /\ Len(desiredUris) = 2
    /\ beforeUris[1] = desiredUris[2] /\ beforeUris[2] = desiredUris[1]


----------------------------------------------------------------------------
(* The playlist commands that take --apply *)

\* what a planner can return for the loaded items
PlannerOutputs(p, its) ==
    IF p.name = "shuffle"
    THEN {[uris |-> u, droppedEpisodes |-> toTrackOnly(its).droppedEpisodes] :
             u \in planShuffleUris(its, p.groupSize, p.groups)}
    ELSE IF p.name = "dedup" THEN {planDedup(its, p.keep)}
    ELSE IF p.name = "cleanup" THEN {planCleanup(its, p.market)}
    ELSE IF p.name = "sort" THEN {planSort(its, p.by, p.order)}
    ELSE IF p.name = "trim" THEN {planTrim(its, MathFloor(p), p.from)}
    ELSE {planReverse(its)}

\* the checks a transform command makes before its first request
transformValid(p, c) ==
    /\ ~(p.name = "shuffle" /\ p.groupSize # 0 /\ p.groups # 0)
    /\ ~(p.name = "trim" /\ (~IsInteger(p) \/ p.n < 0))
    /\ c.refOk

\* the checks of runPlaylistGenerateManaged before generateTrackPool
generateValid(c, f) ==
    /\ c.to # c.toNew
    /\ ~(c.mode # "" /\ ~c.to)
    /\ ~(f /\ ~(c.to /\ c.mode = "replace"))
    /\ ~(c.toNew /\ ~c.hasName)
    /\ c.inputOk
    /\ c.optsOk

\* mutant: the append branch does not look at apply
targetStep_noPreview(c, ap) ==
    IF c.toNew
    THEN (IF ~c.hasName THEN "invalid" ELSE IF ~ap THEN "preview" ELSE "create")
    ELSE IF ~c.to \/ ~c.targetOk THEN "invalid"
    ELSE IF c.mode \in {"", "append"} THEN "append"
    ELSE "meta"

\* the branch of copy, import and generate on the target options
targetStep(c, ap) ==
    IF c.toNew
    THEN (IF ~c.hasName THEN "invalid" ELSE IF ~ap THEN "preview" ELSE "create")
    ELSE IF ~c.to \/ ~c.targetOk THEN "invalid"
    ELSE IF c.mode \in {"", "append"} THEN (IF ~ap THEN "preview" ELSE "append")
    ELSE "meta"

Return ==
    /\ pc' = "done"
    /\ outcome' = "returned"
    /\ errCode' = errCode

\* continue at the branch targetStep names
GoTarget(step) ==
    IF step = "invalid" THEN Fail("INVALID_USAGE")
    ELSE IF step = "preview" THEN Return
    ELSE /\ pc' = step
         /\ UNCHANGED <<outcome, errCode>>

cmdFrame ==
    UNCHANGED <<apply, force, cmd, plan, guardState, guardTok, result, genVars,
                apiVars, store>>

TransformStart ==
    /\ pc = "cmd_start" /\ cmd.name = "transform"
    /\ IF transformValid(plan, cmd)
       THEN pc' = "meta" /\ UNCHANGED <<outcome, errCode>>
       ELSE Fail("INVALID_USAGE")
    /\ cmdFrame
    /\ UNCHANGED <<snapshotId, beforeUris, desiredUris, droppedEpisodes, calls, partIdx,
                   snapshot, items, planned, remoteVars>>

\* runPlaylistCopyManaged up to the load of the source playlist
CopyStart ==
    /\ pc = "cmd_start" /\ cmd.name = "copy"
    /\ IF cmd.refOk
       THEN pc' = "src_load" /\ UNCHANGED <<outcome, errCode>>
       ELSE Fail("INVALID_USAGE")
    /\ cmdFrame
    /\ UNCHANGED <<snapshotId, beforeUris, desiredUris, droppedEpisodes, calls, partIdx,
                   snapshot, items, planned, remoteVars>>

\* the source playlist of a copy: the tracks cmd.src and cmd.srcEpisodes episodes
SourceItems(c) ==
    Replaced(c.src) \o [i \in 1..c.srcEpisodes |-> MkItem("episode", 1)]

\* fetchPlaylistMetaUser and loadPlaylistItemsUser of the source, then the branch
CopyLoadSource ==
    /\ pc = "src_load"
    /\ \/ /\ calls' = Append(calls, Call("GET", "playlist", <<>>))
          /\ \E e \in ApiErrors : Fail(e)
          /\ UNCHANGED planned
       \/ /\ calls' = calls \o <<Call("GET", "playlist", <<>>), Call("GET", "items", <<>>)>>
          /\ \/ /\ \E e \in ApiErrors : Fail(e)
                /\ UNCHANGED planned
             \/ LET sourceTrackSet == trackUrisFromItems(SourceItems(cmd)) IN
                /\ planned' = [uris |-> sourceTrackSet.uris,
                               droppedEpisodes |-> sourceTrackSet.droppedEpisodes]
                /\ GoTarget(targetStep(cmd, apply))
    /\ cmdFrame
    /\ UNCHANGED <<snapshotId, beforeUris, desiredUris, droppedEpisodes, partIdx,
                   snapshot, items, remoteVars>>

\* runPlaylistImportManaged up to its first request
ImportStart ==
    /\ pc = "cmd_start" /\ cmd.name = "import"
    /\ IF ~cmd.inputOk
       THEN Fail("INVALID_USAGE") /\ UNCHANGED planned
       ELSE /\ planned' = [uris |-> cmd.src, droppedEpisodes |-> 0]
            /\ GoTarget(targetStep(cmd, apply))
    /\ cmdFrame
    /\ UNCHANGED <<snapshotId, beforeUris, desiredUris, droppedEpisodes, calls, partIdx,
                   snapshot, items, remoteVars>>

GenerateStart ==
    /\ pc = "cmd_start" /\ cmd.name = "generate"
    /\ IF generateValid(cmd, force)
       THEN pc' = "pool" /\ UNCHANGED <<outcome, errCode>>
       ELSE Fail("INVALID_USAGE")
    /\ cmdFrame
    /\ UNCHANGED <<snapshotId, beforeUris, desiredUris, droppedEpisodes, calls, partIdx,
                   snapshot, items, planned, remoteVars>>

\* generateTrackPool as seen by the command: it only reads (GET) and either
\* fails or returns the pool cmd.src
GeneratePool ==
    /\ pc = "pool"
    /\ \/ /\ Fail("INVALID_USAGE")
          /\ UNCHANGED <<calls, planned>>
       \/ /\ calls' = Append(calls, Call("GET", "recommendations", <<>>))
          /\ \/ /\ \E e \in ApiErrors : Fail(e)
                /\ UNCHANGED planned
             \/ /\ planned' = [uris |-> cmd.src, droppedEpisodes |-> 0]
                /\ GoTarget(targetStep(cmd, apply))
    /\ cmdFrame
    /\ UNCHANGED <<snapshotId, beforeUris, desiredUris, droppedEpisodes, partIdx,
                   snapshot, items, remoteVars>>

\* createPlaylist / createPlaylistForCopy: POST /me/playlists
CreatePlaylist ==
    /\ pc = "create"
    /\ calls' = Append(calls, Call("POST", "me/playlists", <<>>))
    /\ \/ /\ \E e \in ApiErrors : Fail(e)
          /\ UNCHANGED remoteVars
       \/ /\ remoteItems' = <<>>
          /\ remoteSnap' = remoteSnap + 1
          /\ UNCHANGED edits
          /\ pc' = "append"
          /\ UNCHANGED <<outcome, errCode>>
    /\ cmdFrame
    /\ UNCHANGED <<snapshotId, beforeUris, desiredUris, droppedEpisodes, partIdx,
                   snapshot, items, planned>>

\* appendPlaylistTracks without a position: one POST per chunk
AppendPost ==
    /\ pc = "append"
    /\ LET parts == chunk(planned.uris, ChunkSize) IN
       IF partIdx > Len(parts)
       THEN /\ Return
            /\ UNCHANGED <<calls, partIdx, snapshot, remoteVars>>
       ELSE /\ calls' = Append(calls, Call("POST", "items", parts[partIdx]))
            /\ \/ /\ \E e \in ApiErrors :
                       /\ Fail(e)
                       /\ \/ UNCHANGED remoteVars
                          \/ /\ e = "NETWORK"
                             /\ remoteItems' = Appended(remoteItems, parts[partIdx])
                             /\ remoteSnap' = remoteSnap + 1
                             /\ UNCHANGED edits
                  /\ UNCHANGED <<partIdx, snapshot>>
               \/ \E tok \in WriteTokens(remoteSnap + 1) :
                    /\ remoteItems' = Appended(remoteItems, parts[partIdx])
                    /\ remoteSnap' = remoteSnap + 1
                    /\ UNCHANGED edits
                    /\ snapshot' = IF tok # NoSnap THEN tok ELSE snapshot
                    /\ partIdx' = partIdx + 1
                    /\ IF partIdx + 1 > Len(parts)
                       THEN Return
                       ELSE pc' = "append" /\ UNCHANGED <<outcome, errCode>>
    /\ cmdFrame
    /\ UNCHANGED <<snapshotId, beforeUris, desiredUris, droppedEpisodes, items, planned>>

\* fetchPlaylistMetaUser of the playlist to rewrite: meta.snapshot_id is kept
FetchMeta ==
    /\ pc = "meta"
    /\ calls' = Append(calls, Call("GET", "playlist", <<>>))
    /\ \/ /\ \E e \in ApiErrors : Fail(e)
          /\ UNCHANGED snapshotId
       \/ /\ \E tok \in {remoteSnap, NoSnap} : snapshotId' = tok
          /\ pc' = "load"
          /\ UNCHANGED <<outcome, errCode>>
    /\ cmdFrame
    /\ UNCHANGED <<beforeUris, desiredUris, droppedEpisodes, partIdx, snapshot, items,
                   planned, remoteVars>>

\* loadPlaylistItemsUser, then the plan and the options of applyPlaylistPlan
LoadItems ==
    /\ pc = "load"
    /\ calls' = Append(calls, Call("GET", "items", <<>>))
    /\ \/ /\ \E e \in ApiErrors : Fail(e)
          /\ UNCHANGED <<items, planned, beforeUris, desiredUris, droppedEpisodes>>
       \/ LET before == trackUrisFromItems(remoteItems) IN
          /\ items' = remoteItems
          /\ beforeUris' = before.uris
          /\ IF cmd.name = "transform"
             THEN \E out \in PlannerOutputs(plan, remoteItems) :
                     /\ planned' = out
                     /\ desiredUris' = out.uris
                     /\ droppedEpisodes' = out.droppedEpisodes
             ELSE /\ planned' = planned
                  /\ desiredUris' = planned.uris
                  /\ droppedEpisodes' = before.droppedEpisodes + planned.droppedEpisodes
          /\ pc' = "apply_entry"
          /\ UNCHANGED <<outcome, errCode>>
    /\ cmdFrame
    /\ UNCHANGED <<snapshotId, partIdx, snapshot, remoteVars>>

\* runPlaylistCoverSetManaged up to its request
CoverStart ==
    /\ pc = "cmd_start" /\ cmd.name = "cover"
    /\ IF ~cmd.refOk \/ ~cmd.inputOk THEN Fail("INVALID_USAGE")
       ELSE IF ~apply THEN Return
       ELSE pc' = "cover_put" /\ UNCHANGED <<outcome, errCode>>
    /\ cmdFrame
    /\ UNCHANGED <<snapshotId, beforeUris, desiredUris, droppedEpisodes, calls, partIdx,
                   snapshot, items, planned, remoteVars>>

CoverPut ==
    /\ pc = "cover_put"
    /\ calls' = Append(calls, Call("PUT", "images", <<>>))
    /\ \/ \E e \in ApiErrors : Fail(e)
       \/ Return
    /\ cmdFrame
    /\ UNCHANGED <<snapshotId, beforeUris, desiredUris, droppedEpisodes, partIdx,
                   snapshot, items, planned, remoteVars>>

RemoteItemSet == {MkTrack(1), MkTrack(2), MkItem("episode", 1)}

CmdPlanCalls ==
    {p \in PlanCalls : p.groupSize <= 1 /\ p.groups <= 1 /\ p.market # "us"}

SrcLists == {<<>>, <<1>>, <<2, 1>>, LongList(ChunkSize + 1)}
GenPools == {<<1>>, <<1, 2, 3>>, LongList(ChunkSize)}

TargetCmds(name, srcs) ==
    {[NoCmd EXCEPT !.name = name, !.toNew = tn, !.to = t, !.mode = m, !.hasName = hn,
                   !.src = sl] :
        tn \in BOOLEAN, t \in BOOLEAN, m \in {"", "append", "replace"}, hn \in BOOLEAN,
        sl \in srcs}
    \cup {[NoCmd EXCEPT !.name = name, !.to = TRUE, !.mode = "replace", !.src = <<1>>,
                        !.refOk = r, !.targetOk = t, !.inputOk = i, !.optsOk = o] :
        r \in BOOLEAN, t \in BOOLEAN, i \in BOOLEAN, o \in BOOLEAN}

Commands ==
    {[NoCmd EXCEPT !.name = "transform", !.refOk = r] : r \in BOOLEAN}
    \cup TargetCmds("copy", SrcLists)
    \cup {[c EXCEPT !.srcEpisodes = 1] : c \in TargetCmds("copy", {<<1>>})}
    \cup TargetCmds("import", SrcLists)
    \cup TargetCmds("generate", GenPools)
    \cup {[NoCmd EXCEPT !.name = "cover", !.refOk = r, !.inputOk = i] :
            r \in BOOLEAN, i \in BOOLEAN}

RemoteInit(c) ==
    IF c.name = "transform" THEN SeqsUpTo(RemoteItemSet, MaxRemote)
    ELSE IF c.toNew \/ c.name = "cover" THEN {<<>>}
    ELSE {<<>>, <<MkTrack(1)>>}

InitCmd ==
    /\ pc = "cmd_start"
    /\ cmd \in Commands
    /\ IdleGen
    /\ IdleApi
    /\ IdleStore
    /\ plan \in (IF cmd.name = "transform" THEN CmdPlanCalls ELSE {NoPlan})
    /\ apply \in BOOLEAN
    /\ force \in (IF cmd.name = "cover" THEN {FALSE} ELSE BOOLEAN)
    /\ remoteItems \in RemoteInit(cmd)
    /\ remoteSnap = 1
    /\ edits = 0
    /\ snapshotId = NoSnap
    /\ beforeUris = <<>>
    /\ desiredUris = <<>>
    /\ droppedEpisodes = 0
    /\ calls = <<>>
    /\ guardState = "notrun"
    /\ guardTok = NoSnap
    /\ partIdx = 1
    /\ snapshot = NoSnap
    /\ outcome = "none"
    /\ errCode = ""
    /\ result = NoResult
    /\ items = <<>>
    /\ planned = NoPlanned

CmdStep ==
    \/ TransformStart \/ CopyStart \/ CopyLoadSource \/ ImportStart
    \/ GenerateStart \/ GeneratePool \/ CreatePlaylist \/ AppendPost
    \/ FetchMeta \/ LoadItems \/ CoverStart \/ CoverPut

NextCmd == CmdStep \/ ApplyStep \/ OtherWriter

SpecCmd == InitCmd /\ [][NextCmd]_vars

\* C1: a command run with apply=false issues no PUT, POST or DELETE, in any
\* execution and whatever the remote answers; it ends with a preview or an
\* error.
Th_C1 ==
    ~apply =>
        /\ Writes(calls) = <<>>
        /\ pc \notin {"create", "append", "cover_put", "guard", "put", "post"}
        /\ ~result.applied

W_C1 ==
    /\ ~apply /\ pc = "done" /\ outcome = "returned"
    /\ cmd.name = "generate" /\ cmd.mode = "replace"
    /\ result.changed /\ Len(calls) = 3

----------------------------------------------------------------------------
(* generate.ts: generateTrackPool *)

RECURSIVE uniqueOrderedFrom(_, _, _)
uniqueOrderedFrom(its, seenItems, out) ==
    IF its = <<>> THEN out
    ELSE IF Head(its) \in seenItems THEN uniqueOrderedFrom(Tail(its), seenItems, out)
    ELSE uniqueOrderedFrom(Tail(its), seenItems \cup {Head(its)}, Append(out, Head(its)))

uniqueOrdered(its) == uniqueOrderedFrom(its, {}, <<>>)

\* input.trim().toLowerCase() on the market strings of the model
parseFilterKey(input) ==
    IF input \in {"", " "} THEN ""
    ELSE IF input \in {"us", "US"} THEN "us"
    ELSE IF input \in {"de", "DE"} THEN "de"
    ELSE input

\* a numeric option named in o.nonInteger has the value o[f] + 1/2
IsIntegerOpt(o, f) == f \notin o.nonInteger

\* mutant: the count of unique seeds is not checked
validationError_rawCountOnly(o) ==
    IF ~IsIntegerOpt(o, "targetSize") \/ o.targetSize < 1 \/ o.targetSize > 100
    THEN "target-size"
    ELSE IF ~IsIntegerOpt(o, "minPopularity") \/ o.minPopularity < 0 \/ o.minPopularity > 100
    THEN "min-popularity"
    ELSE IF ~IsIntegerOpt(o, "maxDurationMs") \/ o.maxDurationMs <= 0
    THEN "max-duration-ms"
    ELSE IF \/ ~IsIntegerOpt(o, "maxKeySharePercent")
            \/ o.maxKeySharePercent < 1 \/ o.maxKeySharePercent > 100
    THEN "max-key-share"
    ELSE IF Len(o.seedTrackUris) < 3 \/ Len(o.seedTrackUris) > 5
    THEN "seed-count"
    ELSE ""

\* the checks at the head of generateTrackPool, in source order; "" when
\* all of them pass
validationError(o) ==
    IF ~IsIntegerOpt(o, "targetSize") \/ o.targetSize < 1 \/ o.targetSize > 100
    THEN "target-size"
    ELSE IF ~IsIntegerOpt(o, "minPopularity") \/ o.minPopularity < 0 \/ o.minPopularity > 100
    THEN "min-popularity"
    ELSE IF ~IsIntegerOpt(o, "maxDurationMs") \/ o.maxDurationMs <= 0
    THEN "max-duration-ms"
    ELSE IF \/ ~IsIntegerOpt(o, "maxKeySharePercent")
            \/ o.maxKeySharePercent < 1 \/ o.maxKeySharePercent > 100
    THEN "max-key-share"
    ELSE IF Len(o.seedTrackUris) < 3 \/ Len(o.seedTrackUris) > 5
    THEN "seed-count"
    ELSE IF Len(uniqueOrdered(o.seedTrackUris)) < 3
    THEN "unique-seeds"
    ELSE ""

\* Math.max(1, Math.ceil((targetSize * maxKeySharePercent) / 100))
keyCapOf(o) == Max(1, (o.targetSize * o.maxKeySharePercent + 99) \div 100)

\* a RecommendationTrack as the fetcher returns it
MkCand(u) ==
    [uri |-> u, name |-> "n", is_playable |-> "undef", popularity |-> <<>>,
     duration_ms |-> <<>>, markets_defined |-> FALSE, available_markets |-> {}]

\* mutant: the playability test stands before the exclude test
sourceFilter_unplayableFirst(c, seenUris, o) ==
    LET filterMarket == IF o.market # "" THEN parseFilterKey(o.market) ELSE "" IN
    IF c.uri \in seenUris THEN "seen"
    ELSE IF c.name \in {"undef", "", " "} THEN "noname"
    ELSE IF c.is_playable = "false" THEN "unplayable"
    ELSE IF c.uri \in o.excludeTrackUris THEN "excluded"
    ELSE IF c.popularity # <<>> /\ c.popularity[1] < o.minPopularity THEN "popularity"
    ELSE IF c.duration_ms # <<>> /\ c.duration_ms[1] > o.maxDurationMs THEN "duration"
    ELSE IF /\ filterMarket # ""
            /\ c.markets_defined
            /\ Cardinality(c.available_markets) > 0
            /\ toUpperCase(filterMarket) \notin c.available_markets
    THEN "market"
    ELSE "pass"

\* the chain of tests a candidate goes through: the test that stops it, or
\* "pass"
sourceFilter(c, seenUris, o) ==
    LET filterMarket == IF o.market # "" THEN parseFilterKey(o.market) ELSE "" IN
    IF c.uri \in seenUris THEN "seen"
    ELSE IF c.name \in {"undef", "", " "} THEN "noname"
    ELSE IF c.uri \in o.excludeTrackUris THEN "excluded"
    ELSE IF c.is_playable = "false" THEN "unplayable"
    ELSE IF c.popularity # <<>> /\ c.popularity[1] < o.minPopularity THEN "popularity"
    ELSE IF c.duration_ms # <<>> /\ c.duration_ms[1] > o.maxDurationMs THEN "duration"
    ELSE IF /\ filterMarket # ""
            /\ c.markets_defined
            /\ Cardinality(c.available_markets) > 0
            /\ toUpperCase(filterMarket) \notin c.available_markets
    THEN "market"
    ELSE "pass"

\* filterStats.source_filter.dropped_<rule> += 1
bump(stats, rule) ==
    IF rule = "noname" THEN [stats EXCEPT !.dropped_noname = @ + 1]
    ELSE IF rule = "excluded" THEN [stats EXCEPT !.dropped_excluded = @ + 1]
    ELSE IF rule = "unplayable" THEN [stats EXCEPT !.dropped_unplayable = @ + 1]
    ELSE IF rule = "popularity" THEN [stats EXCEPT !.dropped_popularity = @ + 1]
    ELSE IF rule = "duration" THEN [stats EXCEPT !.dropped_duration = @ + 1]
    ELSE IF rule = "market" THEN [stats EXCEPT !.dropped_market = @ + 1]
    ELSE stats

\* the loop over the candidates of a round; acc = [filtered, stats]
RECURSIVE filterLoop(_, _, _, _)
filterLoop(cands, seenUris, o, acc) ==
    IF cands = <<>> THEN acc
    ELSE LET rule == sourceFilter(Head(cands), seenUris, o) IN
         IF rule = "pass"
         THEN filterLoop(Tail(cands), seenUris, o,
                         [acc EXCEPT !.filtered = Append(@, Head(cands))])
         ELSE filterLoop(Tail(cands), seenUris, o,
                         [acc EXCEPT !.stats = bump(@, rule)])

\* Map.get with a default, Map.set
MapGet(m, k, default) == IF k \in DOMAIN m THEN m[k] ELSE default
MapSet(m, k, v) == [x \in DOMAIN m \cup {k} |-> IF x = k THEN v ELSE m[x]]

\* the key the audio-features endpoint reports for a track (NoKey: none)
AudioKey(u) ==
    IF u \in {1, 2, 4, 5} THEN 0
    ELSE IF u \in {3, 6} THEN 1
    ELSE NoKey

\* keys of the seeds: acc = [keyByUri, keyCounts]
RECURSIVE seedKeysLoop(_, _)
seedKeysLoop(uris, acc) ==
    IF uris = <<>> THEN acc
    ELSE LET key == AudioKey(Head(uris)) IN
         IF key # NoKey
         THEN seedKeysLoop(Tail(uris),
                  [keyByUri |-> MapSet(acc.keyByUri, Head(uris), key),
                   keyCounts |-> MapSet(acc.keyCounts, key,
                                        MapGet(acc.keyCounts, key, 0) + 1)])
         ELSE seedKeysLoop(Tail(uris), acc)

\* keys of the candidates that have none yet
RECURSIVE missingKeysLoop(_, _)
missingKeysLoop(uris, kbu) ==
    IF uris = <<>> THEN kbu
    ELSE IF AudioKey(Head(uris)) # NoKey
    THEN missingKeysLoop(Tail(uris), MapSet(kbu, Head(uris), AudioKey(Head(uris))))
    ELSE missingKeysLoop(Tail(uris), kbu)

\* mutant: a key is full only when its count has passed the cap
RECURSIVE keyLoop_pastCap(_, _, _, _, _, _)
keyLoop_pastCap(fc, kbu, keyCap, resultLen, targetSize, acc) ==
    IF fc = <<>> THEN acc
    ELSE LET candidate == Head(fc)
             hasKey == candidate.uri \in DOMAIN kbu
             current == IF hasKey THEN MapGet(acc.keyCounts, kbu[candidate.uri], 0) ELSE 0
         IN IF hasKey /\ current > keyCap
            THEN keyLoop_pastCap(Tail(fc), kbu, keyCap, resultLen, targetSize,
                         [acc EXCEPT !.dropped = @ + 1])
            ELSE LET next ==
                        [accepted |-> Append(acc.accepted, candidate),
                         keyCounts |-> IF hasKey
                                       THEN MapSet(acc.keyCounts, kbu[candidate.uri], current + 1)
                                       ELSE acc.keyCounts,
                         dropped |-> acc.dropped]
                 IN IF Len(next.accepted) + resultLen >= targetSize
                    THEN next
                    ELSE keyLoop_pastCap(Tail(fc), kbu, keyCap, resultLen, targetSize, next)

\* the key cap loop; acc = [accepted, keyCounts, dropped]
RECURSIVE keyLoop(_, _, _, _, _, _)
keyLoop(fc, kbu, keyCap, resultLen, targetSize, acc) ==
    IF fc = <<>> THEN acc
    ELSE LET candidate == Head(fc)
             hasKey == candidate.uri \in DOMAIN kbu
             current == IF hasKey THEN MapGet(acc.keyCounts, kbu[candidate.uri], 0) ELSE 0
         IN IF hasKey /\ current >= keyCap
            THEN keyLoop(Tail(fc), kbu, keyCap, resultLen, targetSize,
                         [acc EXCEPT !.dropped = @ + 1])
            ELSE LET next ==
                        [accepted |-> Append(acc.accepted, candidate),
                         keyCounts |-> IF hasKey
                                       THEN MapSet(acc.keyCounts, kbu[candidate.uri], current + 1)
                                       ELSE acc.keyCounts,
                         dropped |-> acc.dropped]
                 IN IF Len(next.accepted) + resultLen >= targetSize
                    THEN next
                    ELSE keyLoop(Tail(fc), kbu, keyCap, resultLen, targetSize, next)

\* mutant: a candidate is pushed without looking at seen
RECURSIVE pushLoop_noSeenTest(_, _, _)
pushLoop_noSeenTest(accepted, targetSize, acc) ==
    IF accepted = <<>> \/ Len(acc.result) >= targetSize THEN acc
    ELSE pushLoop_noSeenTest(Tail(accepted), targetSize,
                  [result |-> Append(acc.result, Head(accepted).uri),
                   seen |-> acc.seen \cup {Head(accepted).uri},
                   newTracks |-> Append(acc.newTracks, Head(accepted).uri)])

\* the loop that pushes the accepted candidates; acc = [result, seen, newTracks]
RECURSIVE pushLoop(_, _, _)
pushLoop(accepted, targetSize, acc) ==
    IF accepted = <<>> \/ Len(acc.result) >= targetSize THEN acc
    ELSE IF Head(accepted).uri \in acc.seen THEN pushLoop(Tail(accepted), targetSize, acc)
    ELSE pushLoop(Tail(accepted), targetSize,
                  [result |-> Append(acc.result, Head(accepted).uri),
                   seen |-> acc.seen \cup {Head(accepted).uri},
                   newTracks |-> Append(acc.newTracks, Head(accepted).uri)])

\* the errors a lookup can end with
GenErrors ==
    {[code |-> "NETWORK", status |-> 0], [code |-> "NOT_FOUND", status |-> 404],
     [code |-> "SPOTIFY_API", status |-> 403], [code |-> "SPOTIFY_API", status |-> 500]}

isUnavailableEndpointError(err) ==
    err.code = "SPOTIFY_API" /\ err.status \in {403, 404}

\* what a step of generateTrackPool leaves alone outside the generator
genFrame ==
    UNCHANGED <<apply, force, snapshotId, beforeUris, desiredUris, droppedEpisodes,
                guardState, guardTok, partIdx, snapshot, result, remoteVars, planVars,
                cmd, opts, catalog, apiVars, store>>

\* the first five of the unique seeds
FirstSeeds(uniqueSeeds) == SubSeq(uniqueSeeds, 1, Min(5, Len(uniqueSeeds)))

\* the loop condition of the rounds and, when it fails, the return of the
\* GenerateResult; r is the loop counter, res the pool, stale the count of
\* stale rounds, broke tells that the loop was left with break
LoopHead(broke, r, res, stale, stats, w) ==
    /\ round' = r
    /\ IF ~broke /\ r < opts.maxRounds /\ Len(res) < opts.targetSize
       THEN /\ pc' = "gen_fetch"
            /\ filterStats' = stats
            /\ warnings' = w
            /\ UNCHANGED <<generated, outcome, errCode>>
       ELSE LET shortfall == Max(0, opts.targetSize - Len(res))
                stagnated == stale >= opts.stagnationLimit
            IN /\ pc' = "done"
               /\ outcome' = "returned"
               /\ errCode' = errCode
               /\ filterStats' =
                    [stats EXCEPT !.stagnation_by_filters =
                        IF stagnated THEN stale ELSE Min(opts.stagnationLimit, stale)]
               /\ warnings' = w \cup (IF shortfall > 0 THEN {"shortfall"} ELSE {})
                                \cup (IF stagnated THEN {"stagnation_by_filters"} ELSE {})
               /\ generated' =
                    [seedCount |-> Len(uniqueOrdered(opts.seedTrackUris)),
                     generatedCount |-> Len(res),
                     shortfall |-> shortfall,
                     trackUris |-> res,
                     filteredCount |->
                        stats.dropped_noname + stats.dropped_excluded
                        + stats.dropped_unplayable + stats.dropped_market
                        + stats.dropped_popularity + stats.dropped_duration
                        + stats.dropped_by_key]

\* the statements between the key profile of the seeds and the first round
EnterLoop(res, stats, w) ==
    LET uniqueSeeds == uniqueOrdered(opts.seedTrackUris) IN
    /\ roundSeeds' = SubSeq(uniqueSeeds, 1, Min(5, Len(uniqueSeeds)))
    /\ staleRounds' = 0
    /\ LoopHead(FALSE, 0, res, 0, stats, w)

\* the statements after the seed profile: key diversity is set up
AfterProfile(res, stats, w) ==
    /\ disableKeyDiversity' = ~opts.diversifyKeys
    /\ IF opts.diversifyKeys
       THEN /\ pc' = "gen_seedkeys"
            /\ filterStats' = stats
            /\ warnings' = w
            /\ UNCHANGED <<roundSeeds, staleRounds, round, generated, outcome, errCode>>
       ELSE EnterLoop(res, [stats EXCEPT !.key_diversity_enabled = FALSE], w)

\* generateTrackPool up to its first await
GenStart ==
    /\ pc = "gen_start"
    /\ LET uniqueSeeds == uniqueOrdered(opts.seedTrackUris)
           res == SubSeq(uniqueSeeds, 1, Min(opts.targetSize, Len(uniqueSeeds)))
           w == (IF Len(opts.seedTrackUris) - Len(uniqueSeeds) > 0
                 THEN {"seed_duplicates"} ELSE {})
                \cup (IF opts.excludeTrackUris # {} THEN {"exclude_size"} ELSE {})
           stats == [NoFilterStats EXCEPT
                        !.key_diversity_enabled = opts.diversifyKeys,
                        !.key_cap = keyCapOf(opts),
                        !.seed_profile_enabled = opts.seedProfileEnabled]
       IN IF validationError(opts) # ""
          THEN /\ Fail("INVALID_USAGE")
               /\ UNCHANGED <<genResult, seen, keyCounts, keyByUri, disableKeyDiversity,
                              filterStats, roundSeeds, staleRounds, round, warnings,
                              seedProfileQuery, candidates, filteredCandidates, generated>>
          ELSE /\ genResult' = res
               /\ seen' = {res[i] : i \in 1..Len(res)}
               /\ UNCHANGED <<keyCounts, keyByUri, seedProfileQuery, candidates,
                              filteredCandidates>>
               /\ IF opts.seedProfileEnabled
                  THEN /\ pc' = "gen_profile"
                       /\ filterStats' = stats
                       /\ warnings' = w
                       /\ UNCHANGED <<disableKeyDiversity, roundSeeds, staleRounds, round,
                                      generated, outcome, errCode>>
                  ELSE AfterProfile(res, stats, w)
    /\ UNCHANGED <<calls, profileAnswers>>
    /\ genFrame

\* the final HTTP statuses a lookup can be answered with (0: no answer: the
\* request timed out, the connection failed or the rate limit retries ran out)
LookupStatuses == {200, 403, 404, 500, 0}

\* the error apiRequest raises for a final status, NoError for a 2xx answer
NoError == [code |-> "", status |-> 0]

apiError(status) ==
    IF status = 0 THEN [code |-> "NETWORK", status |-> 0]
    ELSE IF status = 404 THEN [code |-> "NOT_FOUND", status |-> 404]
    ELSE IF status >= 400 THEN [code |-> "SPOTIFY_API", status |-> status]
    ELSE NoError

\* await resolveSeedProfile: the track lookup and the audio-features lookup
\* are issued together and joined; the first rejection, if any, decides
SeedProfile ==
    /\ pc = "gen_profile"
    /\ LET seedIds == FirstSeeds(uniqueOrdered(opts.seedTrackUris)) IN
       calls' = calls \o <<Call("GET", "tracks", seedIds),
                           Call("GET", "audio-features", seedIds)>>
    /\ \E trackStatus \in LookupStatuses, featureStatus \in LookupStatuses :
         LET errs == {apiError(trackStatus), apiError(featureStatus)} \ {NoError} IN
         /\ profileAnswers' = <<trackStatus, featureStatus>>
         /\ IF errs = {}
            THEN /\ seedProfileQuery' = "targets"
                 /\ UNCHANGED <<genResult, seen, keyCounts, keyByUri, candidates,
                                filteredCandidates>>
                 /\ AfterProfile(genResult,
                                 [filterStats EXCEPT !.seed_profile_used = TRUE], warnings)
            ELSE \E err \in errs :
                   IF isUnavailableEndpointError(err)
                   THEN /\ seedProfileQuery' = "empty"
                        /\ UNCHANGED <<genResult, seen, keyCounts, keyByUri, candidates,
                                       filteredCandidates>>
                        /\ AfterProfile(genResult,
                                        [filterStats EXCEPT !.seed_profile_used = FALSE],
                                        warnings \cup {"seed_profile_fallback",
                                                       "seed_profile_unavailable"})
                   ELSE /\ Fail(err.code)
                        /\ UNCHANGED <<genResult, seen, keyCounts, keyByUri,
                                       disableKeyDiversity, filterStats, roundSeeds,
                                       staleRounds, round, warnings, seedProfileQuery,
                                       candidates, filteredCandidates, generated>>
    /\ genFrame

\* the catch block of a key lookup
KeyLookupFailed(stats, w) ==
    [stats |-> [stats EXCEPT !.disabled_by_api = TRUE, !.key_diversity_enabled = FALSE],
     warnings |-> w \cup {"key_diversity_disabled"}]

\* await fetchTrackAudioFeatures for the seeds
SeedKeys ==
    /\ pc = "gen_seedkeys"
    /\ calls' = Append(calls, Call("GET", "audio-features", uniqueOrdered(opts.seedTrackUris)))
    /\ \/ LET acc == seedKeysLoop(uniqueOrdered(opts.seedTrackUris),
                                  [keyByUri |-> keyByUri, keyCounts |-> keyCounts])
          IN /\ keyByUri' = acc.keyByUri
             /\ keyCounts' = acc.keyCounts
             /\ UNCHANGED disableKeyDiversity
             /\ EnterLoop(genResult, filterStats,
                          warnings \cup (IF DOMAIN acc.keyCounts # {}
                                         THEN {"key_diversity_initialized"} ELSE {}))
       \/ \E e \in GenErrors :
            IF isUnavailableEndpointError(e)
            THEN /\ disableKeyDiversity' = TRUE
                 /\ UNCHANGED <<keyByUri, keyCounts>>
                 /\ EnterLoop(genResult, KeyLookupFailed(filterStats, warnings).stats,
                              KeyLookupFailed(filterStats, warnings).warnings)
            ELSE /\ Fail(e.code)
                 /\ UNCHANGED <<keyByUri, keyCounts, disableKeyDiversity, filterStats,
                                roundSeeds, staleRounds, round, warnings, generated>>
    /\ UNCHANGED <<genResult, seen, seedProfileQuery, candidates, filteredCandidates,
                   profileAnswers>>
    /\ genFrame

\* mutant: a round that adds nothing goes back to the original seeds
Accept_backToSeeds(acceptedCandidates, kc, stats, w) ==
    LET p == pushLoop(acceptedCandidates, opts.targetSize,
                      [result |-> genResult, seen |-> seen, newTracks |-> <<>>])
        grew == p.newTracks # <<>>
        stale == IF grew THEN 0 ELSE staleRounds + 1
        broke == ~grew /\ stale >= opts.stagnationLimit
        uniqueSeeds == uniqueOrdered(opts.seedTrackUris)
    IN /\ genResult' = p.result
       /\ seen' = p.seen
       /\ keyCounts' = kc
       /\ staleRounds' = stale
       /\ roundSeeds' = IF grew THEN SubSeq(p.newTracks, 1, Min(5, Len(p.newTracks)))
                        ELSE SubSeq(uniqueSeeds, 1, Min(5, Len(uniqueSeeds)))
       /\ LoopHead(broke, IF broke THEN round ELSE round + 1, p.result, stale, stats, w)

\* mutant: a round that adds a URI leaves the stale count as it is
Accept_noReset(acceptedCandidates, kc, stats, w) ==
    LET p == pushLoop(acceptedCandidates, opts.targetSize,
                      [result |-> genResult, seen |-> seen, newTracks |-> <<>>])
        grew == p.newTracks # <<>>
        stale == IF grew THEN staleRounds ELSE staleRounds + 1
        broke == ~grew /\ stale >= opts.stagnationLimit
    IN /\ genResult' = p.result
       /\ seen' = p.seen
       /\ keyCounts' = kc
       /\ staleRounds' = stale
       /\ roundSeeds' = IF grew THEN SubSeq(p.newTracks, 1, Min(5, Len(p.newTracks)))
                        ELSE roundSeeds
       /\ LoopHead(broke, IF broke THEN round ELSE round + 1, p.result, stale, stats, w)

\* the end of a round: the accepted candidates are pushed, the stale count
\* and the next seeds are set, then the loop goes on or the result is returned
Accept(acceptedCandidates, kc, stats, w) ==
    LET p == pushLoop(acceptedCandidates, opts.targetSize,
                      [result |-> genResult, seen |-> seen, newTracks |-> <<>>])
        grew == p.newTracks # <<>>
        stale == IF grew THEN 0 ELSE staleRounds + 1
        broke == ~grew /\ stale >= opts.stagnationLimit
    IN /\ genResult' = p.result
       /\ seen' = p.seen
       /\ keyCounts' = kc
       /\ staleRounds' = stale
       /\ roundSeeds' = IF grew THEN SubSeq(p.newTracks, 1, Min(5, Len(p.newTracks)))
                        ELSE roundSeeds
       /\ LoopHead(broke, IF broke THEN round ELSE round + 1, p.result, stale, stats, w)

\* the key cap loop over the filtered candidates, then the end of the round
AcceptWithKeys(fc, kbu, stats, w) ==
    LET k == keyLoop(fc, kbu, stats.key_cap, Len(genResult), opts.targetSize,
                     [accepted |-> <<>>, keyCounts |-> keyCounts, dropped |-> 0])
    IN Accept(k.accepted, k.keyCounts,
              [stats EXCEPT !.dropped_by_key = @ + k.dropped], w)

missingKeysOf(fc, kbu) == SelectSeq(UrisOf(fc), LAMBDA u : u \notin DOMAIN kbu)

\* candidates that pass every source filter, enough of them to add more than
\* five URIs in one round
WideCatalog == {MkCand(u) : u \in 4..10}

\* the answers of the fetcher that hold the whole catalog in one page
FullPages(cat) ==
    IF cat = WideCatalog THEN {[i \in 1..7 |-> MkCand(i + 3)]} ELSE {}

\* await fetcher, the source filters and, unless keys have to be fetched,
\* the rest of the round
RoundFetch ==
    /\ pc = "gen_fetch"
    /\ calls' = Append(calls, Call("GET", "recommendations", roundSeeds))
    /\ \/ /\ \E e \in GenErrors : Fail(e.code)
          /\ UNCHANGED <<genResult, seen, keyCounts, filterStats, roundSeeds, staleRounds,
                         round, warnings, candidates, filteredCandidates, generated>>
       \/ \E batch \in SeqsUpTo(catalog, MaxBatch) \cup FullPages(catalog) :
            LET f == filterLoop(batch, seen, opts,
                                [filtered |-> <<>>, stats |-> filterStats])
            IN /\ candidates' = batch
               /\ filteredCandidates' = f.filtered
               /\ IF f.filtered = <<>>
                  THEN Accept(<<>>, keyCounts, f.stats, warnings)
                  ELSE IF ~disableKeyDiversity /\ f.stats.key_diversity_enabled
                  THEN IF missingKeysOf(f.filtered, keyByUri) # <<>>
                       THEN /\ pc' = "gen_keys"
                            /\ filterStats' = f.stats
                            /\ UNCHANGED <<genResult, seen, keyCounts, roundSeeds,
                                           staleRounds, round, warnings, generated,
                                           outcome, errCode>>
                       ELSE AcceptWithKeys(f.filtered, keyByUri, f.stats, warnings)
                  ELSE Accept(f.filtered, keyCounts, f.stats, warnings)
    /\ UNCHANGED <<keyByUri, disableKeyDiversity, seedProfileQuery, profileAnswers>>
    /\ genFrame

\* await fetchTrackAudioFeatures for the candidates without a key, then the
\* key cap loop and the rest of the round
RoundKeys ==
    /\ pc = "gen_keys"
    /\ calls' = Append(calls, Call("GET", "audio-features",
                                   uniqueOrdered(missingKeysOf(filteredCandidates, keyByUri))))
    /\ \/ LET kbu == missingKeysLoop(missingKeysOf(filteredCandidates, keyByUri), keyByUri)
          IN /\ keyByUri' = kbu
             /\ UNCHANGED disableKeyDiversity
             /\ AcceptWithKeys(filteredCandidates, kbu, filterStats, warnings)
       \/ \E e \in GenErrors :
            IF isUnavailableEndpointError(e)
            THEN /\ disableKeyDiversity' = TRUE
                 /\ UNCHANGED keyByUri
                 /\ AcceptWithKeys(filteredCandidates, keyByUri,
                                   KeyLookupFailed(filterStats, warnings).stats,
                                   KeyLookupFailed(filterStats, warnings).warnings)
            ELSE /\ Fail(e.code)
                 /\ UNCHANGED <<genResult, seen, keyCounts, keyByUri, disableKeyDiversity,
                                filterStats, roundSeeds, staleRounds, round, warnings,
                                generated>>
    /\ UNCHANGED <<seedProfileQuery, candidates, filteredCandidates, profileAnswers>>
    /\ genFrame

\* options of a plain run: three seeds, every source filter armed
BaseOpts ==
    [seedTrackUris |-> <<1, 2, 3>>, targetSize |-> 5, market |-> "us",
     minPopularity |-> 30, maxDurationMs |-> 240000, excludeTrackUris |-> {6},
     seedProfileEnabled |-> FALSE, diversifyKeys |-> FALSE, maxKeySharePercent |-> 25,
     maxRounds |-> 1, stagnationLimit |-> 2, nonInteger |-> {}]

\* candidates that fail the source filters from one test on, one that is
\* accepted already, one without any attribute and two that pass
Flawed(u, nm, pl, pop, dur) ==
    [MkCand(u) EXCEPT !.name = nm, !.is_playable = pl, !.popularity = pop,
                      !.duration_ms = dur, !.markets_defined = TRUE,
                      !.available_markets = {"DE"}]

FilterCatalog ==
    {Flawed(6, " ", "false", <<10>>, <<300000>>),
     Flawed(6, "n", "false", <<10>>, <<300000>>),
     Flawed(7, "n", "false", <<10>>, <<300000>>),
     Flawed(7, "n", "true", <<10>>, <<300000>>),
     Flawed(8, "n", "true", <<30>>, <<300000>>),
     Flawed(8, "n", "undef", <<>>, <<240000>>),
     Flawed(1, "", "false", <<10>>, <<300000>>),
     [MkCand(9) EXCEPT !.name = "undef"],
     [MkCand(9) EXCEPT !.markets_defined = TRUE],
     [MkCand(4) EXCEPT !.markets_defined = TRUE, !.available_markets = {"US", "DE"}]}

\* candidates that pass every source filter, and a seed coming back
GrowthCatalog == {MkCand(u) : u \in {2, 4, 5, 7, 8}}

FilterOpts ==
    {BaseOpts,
     [BaseOpts EXCEPT !.market = ""],
     [BaseOpts EXCEPT !.market = " "],
     [BaseOpts EXCEPT !.excludeTrackUris = {}],
     [BaseOpts EXCEPT !.minPopularity = 0, !.maxDurationMs = 300000],
     [BaseOpts EXCEPT !.maxRounds = 2, !.stagnationLimit = 1]}

GrowthOpts ==
    {[BaseOpts EXCEPT !.seedTrackUris = sd, !.targetSize = ts, !.maxRounds = 2,
                      !.stagnationLimit = sl] :
        sd \in {<<1, 2, 3>>, <<1, 2, 1, 3>>, <<1, 2, 3, 4, 5>>}, ts \in {1, 4, 5, 6},
        sl \in {1, 2}}
    \cup {[BaseOpts EXCEPT !.diversifyKeys = dk, !.maxKeySharePercent = pct,
                           !.maxRounds = 2] :
        dk \in BOOLEAN, pct \in {20, 25, 60}}
    \cup {[BaseOpts EXCEPT !.seedProfileEnabled = TRUE, !.diversifyKeys = dk] :
        dk \in BOOLEAN}
    \cup {[BaseOpts EXCEPT !.maxRounds = 0],
          [BaseOpts EXCEPT !.maxRounds = 3, !.targetSize = 6]}

\* options one of the checks at the head of generateTrackPool rejects
InvalidOpts ==
    {[BaseOpts EXCEPT !.seedTrackUris = sd] :
        sd \in {<<>>, <<1, 2>>, <<1, 1, 2>>, <<1, 2, 1, 2, 1>>, <<1, 2, 3, 4, 5, 6>>}}
    \cup {[BaseOpts EXCEPT !.targetSize = ts] : ts \in {0 - 1, 0, 101}}
    \cup {[BaseOpts EXCEPT !.minPopularity = mp] : mp \in {0 - 1, 101}}
    \cup {[BaseOpts EXCEPT !.maxDurationMs = md] : md \in {0 - 1, 0}}
    \cup {[BaseOpts EXCEPT !.maxKeySharePercent = pct] : pct \in {0, 101}}
    \cup {[BaseOpts EXCEPT !.nonInteger = {f}] :
            f \in {"targetSize", "minPopularity", "maxDurationMs", "maxKeySharePercent"}}
    \cup {[BaseOpts EXCEPT !.seedProfileEnabled = TRUE, !.diversifyKeys = TRUE,
                           !.targetSize = 0]}

GenWorlds ==
    {[opts |-> o, catalog |-> FilterCatalog] : o \in FilterOpts}
    \cup {[opts |-> o, catalog |-> GrowthCatalog] : o \in GrowthOpts}
    \cup {[opts |-> o, catalog |-> GrowthCatalog] : o \in InvalidOpts}
    \cup {[opts |-> [BaseOpts EXCEPT !.targetSize = 10, !.maxRounds = 2],
           catalog |-> WideCatalog]}

InitGen ==
    /\ pc = "gen_start"
    /\ \E w \in GenWorlds : opts = w.opts /\ catalog = w.catalog
    /\ genResult = <<>>
    /\ seen = {}
    /\ keyCounts = <<>>
    /\ keyByUri = <<>>
    /\ disableKeyDiversity = FALSE
    /\ filterStats = NoFilterStats
    /\ roundSeeds = <<>>
    /\ staleRounds = 0
    /\ round = 0
    /\ warnings = {}
    /\ seedProfileQuery = "empty"
    /\ candidates = <<>>
    /\ filteredCandidates = <<>>
    /\ generated = NoGenerated
    /\ profileAnswers = <<>>
    /\ IdleApi
    /\ IdleStore
    /\ IdleApply
    /\ items = <<>>
    /\ plan = NoPlan
    /\ planned = NoPlanned
    /\ remoteItems = <<>>
    /\ remoteSnap = 1
    /\ edits = 0
    /\ cmd = NoCmd

NextGen == GenStart \/ SeedProfile \/ SeedKeys \/ RoundFetch \/ RoundKeys

SpecGen == InitGen /\ [][NextGen]_vars

----------------------------------------------------------------------------
(* client.ts: apiRequest *)

\* the statuses the server answers an attempt with (0: doFetch got no answer)
HttpStatuses == {200, 204, 401, 403, 404, 429, 500, 0}

\* values of the retry-after header of a 429 answer ("null": no header)
RetryAfterHeaders == {"null", "", "0", "2", "3", "-1", "soon"}

\* the answers of the server to one attempt
Answers ==
    {[status |-> st, retryAfter |-> "null"] : st \in HttpStatuses \ {429}}
    \cup {[status |-> 429, retryAfter |-> h] : h \in RetryAfterHeaders}

\* Number(text) of the header values above; finite is FALSE for NaN
ToNumber(text) ==
    IF text = "" \/ text = "0" THEN [finite |-> TRUE, value |-> 0]
    ELSE IF text = "1" THEN [finite |-> TRUE, value |-> 1]
    ELSE IF text = "2" THEN [finite |-> TRUE, value |-> 2]
    ELSE IF text = "3" THEN [finite |-> TRUE, value |-> 3]
    ELSE IF text = "-1" THEN [finite |-> TRUE, value |-> 0 - 1]
    ELSE [finite |-> FALSE, value |-> 0]

\* the wait before a rate limit retry
waitMs(header) ==
    LET ra == ToNumber(IF header \in {"null", ""} THEN "1" ELSE header)
    IN IF ra.finite /\ ra.value > 0 THEN ra.value * 1000 ELSE 1000

\* what a step of apiRequest leaves alone
apiFrame ==
    UNCHANGED <<apply, force, snapshotId, beforeUris, desiredUris, droppedEpisodes, calls,
                guardState, guardTok, partIdx, snapshot, result, remoteVars, planVars,
                cmd, genVars, store>>

\* await getUserAccessToken: the token is refreshed when forceRefresh is set
ApiToken ==
    /\ pc = "api_token"
    /\ tokenCalls' = Append(tokenCalls, refreshed)
    /\ \/ /\ pc' = "api_fetch"
          /\ UNCHANGED <<outcome, errCode>>
       \/ \E code \in {"AUTH_CONFIG", "NETWORK"} : Fail(code)
    /\ UNCHANGED <<refreshed, rateRetries, attempts, waits>>
    /\ apiFrame

\* await doFetch and the tests on the answer
ApiFetch ==
    /\ pc = "api_fetch"
    /\ \E res \in Answers :
         /\ attempts' = Append(attempts, res)
         /\ IF res.status = 0
            THEN /\ Fail("NETWORK")
                 /\ UNCHANGED <<refreshed, rateRetries, waits>>
            ELSE IF res.status = 401 /\ ~refreshed
            THEN /\ refreshed' = TRUE
                 /\ pc' = "api_token"
                 /\ UNCHANGED <<rateRetries, waits, outcome, errCode>>
            ELSE IF res.status = 429 /\ rateRetries < 3
            THEN /\ rateRetries' = rateRetries + 1
                 /\ waits' = Append(waits, waitMs(res.retryAfter))
                 /\ pc' = "api_sleep"
                 /\ UNCHANGED <<refreshed, outcome, errCode>>
            ELSE /\ IF res.status = 429 THEN Fail("NETWORK")
                    ELSE IF res.status = 404 THEN Fail("NOT_FOUND")
                    ELSE IF res.status \notin 200..299 THEN Fail("SPOTIFY_API")
                    ELSE /\ pc' = "done"
                         /\ outcome' = "returned"
                         /\ UNCHANGED errCode
                 /\ UNCHANGED <<refreshed, rateRetries, waits>>
    /\ UNCHANGED tokenCalls
    /\ apiFrame

\* await sleep(waitMs)
ApiSleep ==
    /\ pc = "api_sleep"
    /\ pc' = "api_token"
    /\ UNCHANGED <<outcome, errCode, apiVars>>
    /\ apiFrame

InitApi ==
    /\ pc = "api_token"
    /\ IdleApi
    /\ IdleApply
    /\ items = <<>>
    /\ plan = NoPlan
    /\ planned = NoPlanned
    /\ remoteItems = <<>>
    /\ remoteSnap = 1
    /\ edits = 0
    /\ cmd = NoCmd
    /\ IdleGen
    /\ IdleStore

ApiStep == ApiToken \/ ApiFetch \/ ApiSleep

NextApi == ApiStep

SpecApi == InitApi /\ [][NextApi]_vars

\* every awaited promise of apiRequest settles: the token call and doFetch
\* are bounded by timeoutMs, sleep by its timer
SpecApiLive == SpecApi /\ WF_vars(ApiStep)

----------------------------------------------------------------------------
(* The account store: upsertAccount, setActiveAccount, removeAccount *)

MaxUpdatedAt == 2

\* account ids are non-empty trimmed strings (normalizeAccount)
AccountIds == {"a", "b", "c"}
AccountNames == {"main", "Work", "b"}
AccountRefs == {"a", "b", "c", " a ", "  ", "", "MAIN", "work", "x"}

NoAccount == [id |-> "", name |-> "", updated_at |-> 0]

Accounts ==
    [id : AccountIds, name : AccountNames, updated_at : 1..MaxUpdatedAt]

\* String.prototype.trim on the strings in use
trim(text) ==
    CASE text = " a " -> "a"
      [] text = "  " -> ""
      [] OTHER -> text

\* String.prototype.toLowerCase on the strings in use
toLowerCase(text) ==
    CASE text = "MAIN" -> "main"
      [] text = "Work" -> "work"
      [] OTHER -> text

\* name.trim().toLowerCase()
normalizeName(name) == toLowerCase(trim(name))

\* accounts.findIndex((x) => x.id === id), 1-based, 0 when there is none
indexById(accounts, id) ==
    IF \E i \in 1..Len(accounts) : accounts[i].id = id
    THEN CHOOSE i \in 1..Len(accounts) :
            /\ accounts[i].id = id
            /\ \A j \in 1..(i - 1) : accounts[j].id # id
    ELSE 0

\* the first account whose normalized name is key, 0 when there is none
indexByName(accounts, key) ==
    IF \E i \in 1..Len(accounts) : normalizeName(accounts[i].name) = key
    THEN CHOOSE i \in 1..Len(accounts) :
            /\ normalizeName(accounts[i].name) = key
            /\ \A j \in 1..(i - 1) : normalizeName(accounts[j].name) # key
    ELSE 0

\* findAccountByRef: by id first, then by name; NoAccount stands for undefined
findAccountByRef(st, ref) ==
    LET id == trim(ref)
        byId == indexById(st.accounts, id)
        byName == indexByName(st.accounts, normalizeName(id))
    IN
    IF id = "" THEN NoAccount
    ELSE IF byId # 0 THEN st.accounts[byId]
    ELSE IF byName # 0 THEN st.accounts[byName]
    ELSE NoAccount

\* upsertAccount: "" stands for an active_account_id that is not set
upsertAccount(st, incoming) ==
    LET idx == indexById(st.accounts, incoming.id)
        accounts == IF idx > 0
                    THEN [st.accounts EXCEPT ![idx] = incoming]
                    ELSE Append(st.accounts, incoming)
    IN
    [active_account_id |-> IF st.active_account_id = ""
                           THEN incoming.id
                           ELSE st.active_account_id,
     accounts |-> accounts]

\* setActiveAccount once the account is found
setActiveAccount(st, account) == [st EXCEPT !.active_account_id = account.id]

\* mutant: the active id is kept when its account is removed
removeAccount_keepActive(st, account) ==
    LET keep(x) == x.id # account.id IN
    [active_account_id |-> st.active_account_id,
     accounts |-> SelectSeq(st.accounts, keep)]

\* removeAccount once the account is found
removeAccount(st, account) ==
    LET keep(x) == x.id # account.id
        accounts == SelectSeq(st.accounts, keep)
    IN
    [active_account_id |-> IF st.active_account_id = account.id
                           THEN (IF accounts = <<>> THEN "" ELSE accounts[1].id)
                           ELSE st.active_account_id,
     accounts |-> accounts]

storeFrame ==
    UNCHANGED <<pc, apply, force, snapshotId, beforeUris, desiredUris, droppedEpisodes,
                calls, guardState, guardTok, partIdx, snapshot, result, remoteVars,
                planVars, cmd, genVars, apiVars>>

\* throw new CliError("NOT_FOUND", ...): no store is returned
StoreNotFound ==
    /\ outcome' = "error"
    /\ errCode' = "NOT_FOUND"
    /\ store' = store

StoreReturns(next) ==
    /\ outcome' = "returned"
    /\ errCode' = ""
    /\ store' = next

UpsertAccount ==
    /\ pc = "store"
    /\ \E incoming \in Accounts : StoreReturns(upsertAccount(store, incoming))
    /\ storeFrame

SetActiveAccount ==
    /\ pc = "store"
    /\ \E ref \in AccountRefs :
          LET account == findAccountByRef(store, ref) IN
          IF account = NoAccount
          THEN StoreNotFound
          ELSE StoreReturns(setActiveAccount(store, account))
    /\ storeFrame

RemoveAccount ==
    /\ pc = "store"
    /\ \E ref \in AccountRefs :
          LET account == findAccountByRef(store, ref) IN
          IF account = NoAccount
          THEN StoreNotFound
          ELSE StoreReturns(removeAccount(store, account))
    /\ storeFrame

\* emptyStore()
InitStore ==
    /\ pc = "store"
    /\ IdleStore
    /\ IdleApi
    /\ IdleApply
    /\ items = <<>>
    /\ plan = NoPlan
    /\ planned = NoPlanned
    /\ remoteItems = <<>>
    /\ remoteSnap = 1
    /\ edits = 0
    /\ cmd = NoCmd
    /\ IdleGen

NextStore == UpsertAccount \/ SetActiveAccount \/ RemoveAccount

SpecStore == InitStore /\ [][NextStore]_vars

----------------------------------------------------------------------------
(* Properties of the planners *)

Occ(u, uris) == Cardinality({i \in 1..Len(uris) : uris[i] = u})

TrackOcc(u, its) ==
    Cardinality({i \in 1..Len(its) : its[i].kind = "track" /\ its[i].uri = u})

KindCount(its, kinds) == Cardinality({i \in 1..Len(its) : its[i].kind \in kinds})

\* C9: every URI a planner puts out is the URI of an input item of kind
\* track, as often at most as track items carry it; items of kind episode or
\* unknown contribute nothing.
Th_C9 ==
    pc = "planned" =>
        \A i \in 1..Len(planned.uris) :
            /\ planned.uris[i] # NoUri
            /\ Occ(planned.uris[i], planned.uris) <= TrackOcc(planned.uris[i], items)

W_C9 ==
    /\ pc = "planned" /\ planned.uris # <<>>
    /\ \E i, j \in 1..Len(items) :
          /\ items[i].kind = "episode" /\ items[i].uri # NoUri
          /\ items[j].kind = "unknown" /\ items[j].uri # NoUri

\* C10 as stated: droppedEpisodes is the number of input items of kind
\* episode or unknown.
Cx_C10 ==
    pc = "planned" =>
        planned.droppedEpisodes = KindCount(items, {"episode", "unknown"})

\* C10 amended: droppedEpisodes is the number of input items of kind
\* episode; items of kind unknown are dropped without being counted.
Th_C10 ==
    pc = "planned" =>
        planned.droppedEpisodes = KindCount(items, {"episode"})

W_C10 ==
    /\ pc = "planned" /\ planned.droppedEpisodes = 1
    /\ KindCount(items, {"episode"}) = 1
    /\ KindCount(items, {"unknown"}) > 0

Range(s) == {s[i] : i \in 1..Len(s)}

\* a and b hold the same elements, each as often
SameBag(a, b) ==
    /\ Len(a) = Len(b)
    /\ \A u \in Range(a) \cup Range(b) : Occ(u, a) = Occ(u, b)

\* the tracks a planner works on, in input order
InputTracks == toTrackOnly(items).uris

\* C11: planShuffle returns a permutation of the input track URIs; with
\* groupSize = g every run of g consecutive positions (the last may be
\* shorter) holds in the output a permutation of what it held in the input;
\* an input of 0 or 1 tracks comes back unchanged.
Th_C11 ==
    (pc = "planned" /\ plan.name = "shuffle") =>
        LET t == InputTracks
            out == planned.uris
            g == plan.groupSize
        IN /\ SameBag(out, t)
           /\ Len(t) <= 1 => out = t
           /\ g > 0 =>
                \A c \in 0..(Len(t) \div g) :
                    SameBag(SubSeq(out, c * g + 1, Min((c + 1) * g, Len(t))),
                            SubSeq(t, c * g + 1, Min((c + 1) * g, Len(t))))

W_C11 ==
    /\ pc = "planned" /\ plan.name = "shuffle" /\ plan.groupSize = 2
    /\ Len(InputTracks) = 3 /\ InputTracks[1] # InputTracks[2]
    /\ planned.uris # InputTracks

\* C12: planShuffle with groups = k > 0 (and no groupSize) on at least 2
\* tracks cuts the n tracks into k consecutive chunks, the first n % k of
\* size n \div k + 1 and the others of size n \div k, and the output holds in
\* the positions of each chunk a permutation of that chunk.
GroupSizeOf(n, k, i) == n \div k + (IF i < n % k THEN 1 ELSE 0)
GroupStart(n, k, i) == i * (n \div k) + Min(i, n % k)

Th_C12 ==
    (/\ pc = "planned" /\ plan.name = "shuffle"
     /\ plan.groups > 0 /\ plan.groupSize = 0 /\ Len(InputTracks) >= 2) =>
        LET t == InputTracks
            out == planned.uris
            n == Len(t)
            k == plan.groups
        IN /\ Len(out) = n
           /\ \A i \in 0..(k - 1) :
                SameBag(SubSeq(out, GroupStart(n, k, i) + 1,
                               GroupStart(n, k, i) + GroupSizeOf(n, k, i)),
                        SubSeq(t, GroupStart(n, k, i) + 1,
                               GroupStart(n, k, i) + GroupSizeOf(n, k, i)))

W_C12 ==
    /\ pc = "planned" /\ plan.name = "shuffle"
    /\ plan.groups = 2 /\ plan.groupSize = 0
    /\ Len(InputTracks) = 3 /\ InputTracks[1] # InputTracks[2]
    /\ planned.uris # InputTracks

FirstPos(u, s) == CHOOSE i \in 1..Len(s) : s[i] = u /\ \A j \in 1..(i - 1) : s[j] # u
LastPos(u, s) == CHOOSE i \in 1..Len(s) : s[i] = u /\ \A j \in (i + 1)..Len(s) : s[j] # u

\* C13: planDedup puts out every distinct input track URI exactly once; the
\* survivor of a URI is its first (keep = first) or last (keep = last)
\* occurrence and the survivors stand in the order of their input positions.
Th_C13 ==
    (pc = "planned" /\ plan.name = "dedup") =>
        LET t == InputTracks
            out == planned.uris
            pos(u) == IF plan.keep = "first" THEN FirstPos(u, t) ELSE LastPos(u, t)
        IN /\ Range(out) = Range(t)
           /\ \A u \in Range(t) : Occ(u, out) = 1
           /\ \A j, k \in 1..Len(out) : j < k => pos(out[j]) < pos(out[k])

W_C13 ==
    /\ pc = "planned" /\ plan.name = "dedup" /\ plan.keep = "last"
    /\ InputTracks = <<1, 2, 1>>
    /\ planned.uris = <<2, 1>>

\* the market list am names no market equal to the given one
Lacks(am, market) == \A x \in am : toUpperCase(x) # toUpperCase(market)

\* C14: planCleanup puts out, in input order, the URIs of the track items
\* left after removing exactly those with is_playable false and, with a
\* market given, those whose market list is non-empty and lacks the market.
Th_C14 ==
    (pc = "planned" /\ plan.name = "cleanup") =>
        LET Unplayable(item) == item.is_playable = "false"
            OffMarket(item) ==
                /\ plan.market # ""
                /\ item.markets_defined /\ item.available_markets # {}
                /\ Lacks(item.available_markets, plan.market)
            Kept(item) ==
                /\ item.kind = "track" /\ item.uri # NoUri
                /\ ~Unplayable(item) /\ ~OffMarket(item)
            out == planned.uris
        IN /\ out = UrisOf(SelectSeq(items, Kept))
           /\ \A u \in Range(out) :
                Occ(u, out) <= Cardinality({i \in 1..Len(items) :
                                  /\ items[i].kind = "track" /\ items[i].uri = u
                                  /\ ~Unplayable(items[i])})
           /\ \A i \in 1..Len(items) :
                (/\ items[i].kind = "track" /\ items[i].uri # NoUri
                 /\ ~Unplayable(items[i])
                 /\ (~items[i].markets_defined \/ items[i].available_markets = {}))
                => items[i].uri \in Range(out)

W_C14 ==
    /\ pc = "planned" /\ plan.name = "cleanup" /\ plan.market = "us"
    /\ Len(items) = 2
    /\ items[1].kind = "track" /\ items[1].is_playable # "false"
    /\ items[1].markets_defined /\ items[1].available_markets = {"DE"}
    /\ items[2].kind = "track" /\ items[2].is_playable # "false"
    /\ items[2].markets_defined /\ items[2].available_markets = {}
    /\ items[1].uri # items[2].uri
    /\ planned.uris = <<items[2].uri>>

\* the key planSort orders by, as the claim gives it
KeyOf(item, by) ==
    IF by = "popularity"
    THEN (IF item.popularity = <<>> THEN 0 - 1 ELSE item.popularity[1])
    ELSE (IF item.added_at = <<>> THEN 0 ELSE DateParse(item.added_at[1]))

\* C15: planSort puts out the input track URIs ordered by the key
\* (non-decreasing for asc, non-increasing for desc), tracks with equal keys
\* in their input order: the track at input position i goes to the position
\* one more than the number of tracks that must stand before it.
Th_C15 ==
    (pc = "planned" /\ plan.name = "sort") =>
        LET tr == SelectSeq(items, IsTrack)
            n == Len(tr)
            key(i) == KeyOf(tr[i], plan.by)
            Before(j, i) ==
                \/ (plan.order = "asc" /\ key(j) < key(i))
                \/ (plan.order # "asc" /\ key(j) > key(i))
                \/ (key(j) = key(i) /\ j < i)
            rank(i) == 1 + Cardinality({j \in 1..n : Before(j, i)})
            out == planned.uris
        IN /\ Len(out) = n
           /\ \A i \in 1..n : out[rank(i)] = tr[i].uri

W_C15 ==
    /\ pc = "planned" /\ plan.name = "sort"
    /\ plan.by = "popularity" /\ plan.order = "desc"
    /\ Len(items) = 2
    /\ IsTrack(items[1]) /\ IsTrack(items[2])
    /\ items[1].popularity = <<>> /\ items[2].popularity = <<>>
    /\ items[1].uri # items[2].uri
    /\ planned.uris = <<items[1].uri, items[2].uri>>

\* C16: a trim with integer keep = n >= 0 plans the first min(n, len) track
\* URIs (from = start) or the last min(n, len) (from = end), in input order,
\* nothing for n = 0; a trim command with a negative or non-integer keep
\* fails with INVALID_USAGE without having made a request.
Th_C16 ==
    (cmd.name = "transform" /\ plan.name = "trim") =>
        IF ~IsInteger(plan) \/ plan.n < 0
        THEN /\ calls = <<>>
             /\ pc \in {"cmd_start", "done"}
             /\ pc = "done" => (outcome = "error" /\ errCode = "INVALID_USAGE")
        ELSE pc \in {"apply_entry", "guard", "put", "post"} =>
                LET t == InputTracks
                    len == Len(t)
                    k == Min(plan.n, len)
                IN /\ planned.uris =
                        (IF plan.from = "end" THEN SubSeq(t, len - k + 1, len)
                         ELSE SubSeq(t, 1, k))
                   /\ desiredUris = planned.uris
                   /\ plan.n = 0 => planned.uris = <<>>

W_C16 ==
    /\ cmd.name = "transform" /\ plan.name = "trim"
    /\ IsInteger(plan) /\ plan.n = 1 /\ plan.from = "end"
    /\ pc = "apply_entry"
    /\ Len(InputTracks) = 2 /\ InputTracks[1] # InputTracks[2]
    /\ planned.uris = <<InputTracks[2]>>

\* C17: planReverse puts out the track URIs in reversed order; reversing the
\* tracks of its output gives the input order back; 0 or 1 tracks come back
\* unchanged.
Th_C17 ==
    (pc = "planned" /\ plan.name = "reverse") =>
        LET t == InputTracks
            out == planned.uris
            n == Len(t)
        IN /\ Len(out) = n
           /\ \A i \in 1..n : out[i] = t[n + 1 - i]
           /\ planReverse([i \in 1..n |-> MkTrack(out[i])]).uris = t
           /\ n <= 1 => out = t

W_C17 ==
    /\ pc = "planned" /\ plan.name = "reverse"
    /\ Len(InputTracks) = 3 /\ InputTracks[1] # InputTracks[3]
    /\ Len(items) = 3
    /\ planned.uris = <<InputTracks[3], InputTracks[2], InputTracks[1]>>

----------------------------------------------------------------------------
(* Properties of generateTrackPool *)

\* the distinct elements of s in the order of their first occurrence
DistinctInOrder(s) ==
    LET firsts == {i \in 1..Len(s) : \A j \in 1..(i - 1) : s[j] # s[i]}
    IN [k \in 1..Cardinality(firsts) |->
            s[CHOOSE i \in firsts : Cardinality({j \in firsts : j < i}) = k - 1]]

IsPrefix(a, b) == Len(a) <= Len(b) /\ SubSeq(b, 1, Len(a)) = a

\* the pool of a run that passed the checks of its options
C18Pool ==
    (pc \in {"gen_profile", "gen_seedkeys", "gen_fetch", "gen_keys"}
     \/ (pc = "done" /\ generated # NoGenerated)) =>
        LET seeds == DistinctInOrder(opts.seedTrackUris)
            k == Min(Len(seeds), opts.targetSize)
        IN /\ \A i, j \in 1..Len(genResult) : i # j => genResult[i] # genResult[j]
           /\ Len(genResult) <= opts.targetSize
           /\ Len(genResult) >= k
           /\ SubSeq(genResult, 1, k) = SubSeq(seeds, 1, k)
           /\ pc = "done" => generated.trackUris = genResult

\* C18: at every point of a generateTrackPool run and in the returned
\* trackUris no URI occurs twice, the length is at most targetSize, the
\* first min(number of unique seeds, targetSize) entries are the unique seeds
\* in input order, and every step only appends to the pool.
Th_C18 == []C18Pool /\ [][IsPrefix(genResult, genResult')]_vars

W_C18 ==
    /\ pc = "done" /\ outcome = "returned"
    /\ opts.seedTrackUris = <<1, 2, 1, 3>> /\ opts.targetSize = 5
    /\ round = 2
    /\ Len(candidates) = 2 /\ candidates[1].uri = 2 /\ candidates[2].uri = 5
    /\ generated.trackUris = <<1, 2, 3, 4, 5>>

\* the options the claim calls invalid
InvalidRange(o, f, lo, hi) == ~IsIntegerOpt(o, f) \/ o[f] < lo \/ o[f] > hi

InvalidOptions(o) ==
    \/ Len(o.seedTrackUris) \notin 3..5
    \/ Cardinality(Range(o.seedTrackUris)) < 3
    \/ InvalidRange(o, "targetSize", 1, 100)
    \/ InvalidRange(o, "minPopularity", 0, 100)
    \/ ~IsIntegerOpt(o, "maxDurationMs") \/ o.maxDurationMs <= 0
    \/ InvalidRange(o, "maxKeySharePercent", 1, 100)

\* C19: a generateTrackPool run with invalid options fails with
\* INVALID_USAGE and never makes a request: not to the fetcher, not to any
\* other endpoint.
Th_C19 ==
    (pc # "gen_start" /\ opts # NoOpts /\ InvalidOptions(opts)) =>
        /\ pc = "done" /\ outcome = "error" /\ errCode = "INVALID_USAGE"
        /\ calls = <<>>
        /\ genResult = <<>> /\ generated = NoGenerated

W_C19 ==
    /\ pc = "done" /\ outcome = "error" /\ errCode = "INVALID_USAGE"
    /\ opts.seedTrackUris = <<1, 1, 2>>
    /\ calls = <<>>

\* the rules of the source filter in the order of the claim
RuleOrder == <<"noname", "excluded", "unplayable", "popularity", "duration", "market">>

Matches(rule, c, o) ==
    IF rule = "noname" THEN c.name \in {"undef", "", " "}
    ELSE IF rule = "excluded" THEN c.uri \in o.excludeTrackUris
    ELSE IF rule = "unplayable" THEN c.is_playable = "false"
    ELSE IF rule = "popularity" THEN c.popularity # <<>> /\ c.popularity[1] < o.minPopularity
    ELSE IF rule = "duration" THEN c.duration_ms # <<>> /\ c.duration_ms[1] > o.maxDurationMs
    ELSE /\ o.market \notin {"", " "}
         /\ c.markets_defined /\ c.available_markets # {}
         /\ Lacks(c.available_markets, o.market)

\* the first rule of RuleOrder the candidate matches, "none" when it matches none
FirstRule(c, o) ==
    IF \E k \in 1..Len(RuleOrder) : Matches(RuleOrder[k], c, o)
    THEN RuleOrder[CHOOSE k \in 1..Len(RuleOrder) :
                      /\ Matches(RuleOrder[k], c, o)
                      /\ \A j \in 1..(k - 1) : ~Matches(RuleOrder[j], c, o)]
    ELSE "none"

Counter(stats, rule) ==
    IF rule = "noname" THEN stats.dropped_noname
    ELSE IF rule = "excluded" THEN stats.dropped_excluded
    ELSE IF rule = "unplayable" THEN stats.dropped_unplayable
    ELSE IF rule = "popularity" THEN stats.dropped_popularity
    ELSE IF rule = "duration" THEN stats.dropped_duration
    ELSE stats.dropped_market

\* the candidates of batch, not yet accepted, whose first rule is rule
Stopped(batch, accepted, o, rule) ==
    {i \in 1..Len(batch) : batch[i].uri \notin accepted /\ FirstRule(batch[i], o) = rule}

\* a step in which a round's batch arrives and is filtered
C20Round ==
    (pc = "gen_fetch" /\ outcome' # "error") =>
        /\ \A k \in 1..Len(RuleOrder) :
              Counter(filterStats', RuleOrder[k]) =
                  Counter(filterStats, RuleOrder[k])
                  + Cardinality(Stopped(candidates', seen, opts, RuleOrder[k]))
        /\ Len(filteredCandidates') = Cardinality(Stopped(candidates', seen, opts, "none"))

C20Other ==
    pc # "gen_fetch" =>
        \A k \in 1..Len(RuleOrder) :
            Counter(filterStats', RuleOrder[k]) = Counter(filterStats, RuleOrder[k])

\* C20: in each round every candidate not yet accepted counts for the first
\* rule it matches in the order noname, excluded, unplayable, popularity,
\* duration, market, and for that rule only; a candidate that matches no rule
\* and a candidate already accepted count for none; no other step changes a
\* counter of the source filter.
Th_C20 == [][C20Round /\ C20Other]_vars

W_C20 ==
    /\ pc = "done" /\ outcome = "returned" /\ round = 1
    /\ opts = BaseOpts
    /\ Len(candidates) = 2
    /\ candidates[1] = Flawed(6, "n", "false", <<10>>, <<300000>>)
    /\ candidates[2] = Flawed(1, "", "false", <<10>>, <<300000>>)
    /\ filterStats.dropped_excluded = 1
    /\ generated.filteredCount = 1

\* keyCap as the claim gives it: max(1, ceil(targetSize * maxKeySharePercent / 100))
ClaimKeyCap(o) ==
    CHOOSE c \in 1..100 :
        /\ 100 * c >= o.targetSize * o.maxKeySharePercent
        /\ c = 1 \/ 100 * (c - 1) < o.targetSize * o.maxKeySharePercent

MusicalKeys == 0..11

\* the positions of the pool whose fetched key is k
PoolOfKey(k) ==
    {i \in 1..Len(genResult) :
        genResult[i] \in DOMAIN keyByUri /\ keyByUri[genResult[i]] = k}

\* the positions of the pool the seeds hold
SeedPositions ==
    1..Min(Cardinality(Range(opts.seedTrackUris)), opts.targetSize)

\* a run that has set up its pool and whose key diversity is still enabled
KeysStayEnabled ==
    /\ opts # NoOpts /\ opts.diversifyKeys
    /\ pc \in {"gen_fetch", "gen_keys"} \/ (pc = "done" /\ outcome = "returned")
    /\ ~filterStats.disabled_by_api

\* C21 as stated: no key has more than keyCap URIs in the pool
C21Cap ==
    KeysStayEnabled =>
        \A k \in MusicalKeys : Cardinality(PoolOfKey(k)) <= ClaimKeyCap(opts)

\* C21 amended: a key with more than keyCap URIs in the pool holds seeds only
C21CapBesideSeeds ==
    KeysStayEnabled =>
        \A k \in MusicalKeys :
            \/ Cardinality(PoolOfKey(k)) <= ClaimKeyCap(opts)
            \/ PoolOfKey(k) \subseteq SeedPositions

\* a round step that runs the key cap loop with key diversity enabled: before
\* the loop the count of key k is keyCounts[k], the filtered candidates are
\* filteredCandidates', their keys keyByUri'
C21Round ==
    (/\ pc \in {"gen_fetch", "gen_keys"} /\ pc' \in {"gen_fetch", "done"}
     /\ outcome' # "error"
     /\ opts.diversifyKeys /\ ~filterStats'.disabled_by_api
     /\ filteredCandidates' # <<>>) =>
        LET fc == filteredCandidates'
            cap == ClaimKeyCap(opts)
            known(i) == fc[i].uri \in DOMAIN keyByUri'
            keyAt(i) == keyByUri'[fc[i].uri]
            earlier(i) == {j \in 1..(i - 1) : known(j) /\ keyAt(j) = keyAt(i)}
            reached(i) ==
                known(i) /\ MapGet(keyCounts, keyAt(i), 0) + Cardinality(earlier(i)) >= cap
            reachedSet == {i \in 1..Len(fc) : reached(i)}
            distinct == \A i, j \in 1..Len(fc) : i # j => fc[i].uri # fc[j].uri
            pushed == {genResult'[i] : i \in (Len(genResult) + 1)..Len(genResult')}
            grewBy == filterStats'.dropped_by_key - filterStats.dropped_by_key
        IN /\ \A u \in pushed : \E i \in 1..Len(fc) : fc[i].uri = u /\ ~reached(i)
           /\ grewBy <= Cardinality(reachedSet)
           /\ (distinct /\ Len(genResult') < opts.targetSize) =>
                 /\ grewBy = Cardinality(reachedSet)
                 /\ \A i \in 1..Len(fc) : ~known(i) => fc[i].uri \in pushed

\* C21 as stated: with key diversity enabled for the whole run no key has
\* more than keyCap = max(1, ceil(targetSize * maxKeySharePercent / 100)) URIs
\* in the pool; a candidate whose key has reached keyCap is not accepted and
\* is counted in dropped_by_key; a candidate of unknown key is never capped.
Cx_C21 == []C21Cap /\ [][C21Round]_vars

\* C21 amended: the seeds enter the pool uncapped, so a key may exceed keyCap
\* by seeds alone; any key holding an accepted candidate has at most keyCap
\* URIs in the pool; a candidate whose key has reached keyCap is not accepted
\* and, when the cap loop reaches it, is counted in dropped_by_key; a
\* candidate of unknown key is never capped.
Th_C21 == []C21CapBesideSeeds /\ [][C21Round]_vars

W_C21 ==
    /\ pc = "done" /\ outcome = "returned"
    /\ opts.diversifyKeys /\ opts.maxKeySharePercent = 60
    /\ ~filterStats.disabled_by_api /\ filterStats.key_diversity_enabled
    /\ generated.trackUris = <<1, 2, 3, 4, 7>>
    /\ filterStats.dropped_by_key = 2

\* the last request is a key lookup made in this step
KeyLookupMade ==
    /\ Len(calls') = Len(calls) + 1
    /\ calls'[Len(calls')].path = "audio-features"

\* a step of a run seen from the moment the key endpoint was found
\* unavailable: in the step that finds it, the counters before the step are
\* the counters of that moment
C22Step ==
    /\ filterStats.disabled_by_api => filterStats'.disabled_by_api
    /\ filterStats.disabled_by_api => ~KeyLookupMade
    /\ (~filterStats.disabled_by_api /\ filterStats'.disabled_by_api) =>
            /\ outcome' # "error"
            /\ disableKeyDiversity' /\ ~filterStats'.key_diversity_enabled
    /\ filterStats'.disabled_by_api =>
            filterStats'.dropped_by_key = filterStats.dropped_by_key

\* C22: once the key endpoint is found unavailable, key diversity is off for
\* the rest of the run: dropped_by_key does not grow any more, no further key
\* lookup is made, disabled_by_api is and stays true, and the run does not
\* fail for it.
Cx_C22 == [][C22Step]_vars

\* the number of requests made to the fetcher
FetchCount(cs) == Cardinality({i \in 1..Len(cs) : cs[i].path = "recommendations"})

\* the step makes a request to the fetcher
FetchMade == FetchCount(calls') = FetchCount(calls) + 1

\* the step ends a round without an error
RoundEnds ==
    /\ pc \in {"gen_fetch", "gen_keys"} /\ pc' \in {"gen_fetch", "done"}
    /\ outcome' # "error"

\* one of the three reasons to stop holds for pool p after n requests with
\* st consecutive rounds that added nothing
MustStop(p, n, st) ==
    \/ Len(p) >= opts.targetSize
    \/ n >= opts.maxRounds
    \/ st >= opts.stagnationLimit

C23Step ==
    /\ FetchMade =>
          /\ pc = "gen_fetch"
          /\ FetchCount(calls) = round
          /\ ~MustStop(genResult, FetchCount(calls), staleRounds)
    /\ pc = "gen_keys" => ~FetchMade
    /\ RoundEnds =>
          /\ staleRounds' = IF Len(genResult') > Len(genResult) THEN 0 ELSE staleRounds + 1
          /\ pc' = "gen_fetch" <=> ~MustStop(genResult', FetchCount(calls'), staleRounds')
    /\ (pc # "done" /\ pc' = "done" /\ outcome' = "returned") =>
          MustStop(genResult', FetchCount(calls'), staleRounds')

C23Returned ==
    (pc = "done" /\ outcome = "returned") =>
        /\ generated.shortfall = opts.targetSize - Len(generated.trackUris)
        /\ generated.generatedCount = Len(generated.trackUris)
        /\ FetchCount(calls) <= opts.maxRounds

\* C23: the loop asks the fetcher once per round and stops at the first of:
\* the pool has reached targetSize, maxRounds rounds have run,
\* stagnationLimit consecutive rounds have added no URI (a round that adds
\* one resets the count); it never asks the fetcher once the pool is full,
\* and the returned shortfall is targetSize minus the length of the pool.
Th_C23 == []C23Returned /\ [][C23Step]_vars

W_C23 ==
    /\ pc = "done" /\ outcome = "returned"
    /\ opts.maxRounds = 3 /\ opts.stagnationLimit = 2 /\ opts.targetSize = 6
    /\ FetchCount(calls) = 3
    /\ staleRounds = 1 /\ roundSeeds = <<4, 5>>
    /\ generated.trackUris = <<1, 2, 3, 4, 5>> /\ generated.shortfall = 1

\* the seeds of the request made in this step
RequestSeeds == calls'[Len(calls')].body

FirstFive(s) == SubSeq(s, 1, Min(5, Len(s)))

\* the position of URI u in pool p
PoolPos(p, u) == CHOOSE i \in 1..Len(p) : p[i] = u

\* C24 as stated: a request is seeded from at most 5 accepted URIs, the most
\* recent first; after a round that added nothing, and before the first
\* round, from the original seeds.
C24Stated ==
    FetchMade =>
        LET s == RequestSeeds IN
        IF round = 0 \/ staleRounds > 0
        THEN s = FirstFive(DistinctInOrder(opts.seedTrackUris))
        ELSE /\ Len(s) <= 5 /\ Len(s) >= 1
             /\ \A i \in 1..Len(s) : s[i] \in Range(genResult)
             /\ s[1] = genResult[Len(genResult)]
             /\ \A i, j \in 1..Len(s) :
                    i < j => PoolPos(genResult, s[i]) > PoolPos(genResult, s[j])

Cx_C24 == [][C24Stated]_vars

\* the URIs a step appends to the pool, in the order of the pool
AddedBy == SubSeq(genResult', Len(genResult) + 1, Len(genResult'))

C24Step ==
    /\ FetchMade =>
          /\ RequestSeeds = roundSeeds
          /\ round = 0 => roundSeeds = FirstFive(DistinctInOrder(opts.seedTrackUris))
    /\ RoundEnds =>
          roundSeeds' = IF AddedBy # <<>> THEN FirstFive(AddedBy) ELSE roundSeeds

\* C24 amended: a request is seeded from the URIs the last round that added
\* any has added, the first 5 of them in the order they were accepted, and
\* from the first 5 unique original seeds as long as no round has added a
\* URI; a round that adds nothing leaves the seeds of the next request as
\* they were.
Th_C24 == [][C24Step]_vars

W_C24 ==
    /\ pc = "done" /\ outcome = "returned"
    /\ Len(calls) = 3
    /\ calls[1].body = <<1, 2, 3>>
    /\ calls[2].body = <<4, 5>>
    /\ calls[3].body = <<4, 5>>
    /\ genResult = <<1, 2, 3, 4, 5>>

\* the step in which resolveSeedProfile is answered: one of its two lookups
\* gets a 403 or a 404, the other one a 200, a 403 or a 404
ProfileUnavailable ==
    /\ pc = "gen_profile" /\ opts.seedProfileEnabled
    /\ \E i \in 1..2 : profileAnswers'[i] \in {403, 404}
    /\ \A i \in 1..2 : profileAnswers'[i] \in {200, 403, 404}

\* C25: with seed profile enabled, a 403 or 404 answer to the seed track
\* lookup or to the audio-features lookup does not fail generateTrackPool: it
\* goes on with seed_profile.used = false, an empty target-attribute query
\* and a warning, and runs the generation rounds.
C25Step ==
    ProfileUnavailable =>
        /\ outcome' # "error"
        /\ ~filterStats'.seed_profile_used
        /\ seedProfileQuery' = "empty"
        /\ "seed_profile_fallback" \in warnings'
        /\ pc' \in {"gen_seedkeys", "gen_fetch"}

Cx_C25 == [][C25Step]_vars

----------------------------------------------------------------------------
(* Properties of apiRequest *)

\* the wait the claim gives for a retry-after hint: the hint in seconds, one
\* second when the header is missing or is not a positive number
HintMs(header) ==
    IF header \in {"1", "2", "3"} THEN 1000 * ToNumber(header).value ELSE 1000

\* the attempts answered 429, in order
RateLimited == SelectSeq(attempts, LAMBDA a : a.status = 429)

ForcedRefreshes == Cardinality({i \in 1..Len(tokenCalls) : tokenCalls[i]})

C26Bounds ==
    /\ Len(attempts) <= 5
    /\ Len(waits) <= 3
    /\ Len(waits) = Min(3, Len(RateLimited))
    /\ \A i \in 1..Len(waits) : waits[i] = HintMs(RateLimited[i].retryAfter)
    /\ Len(RateLimited) = 4 => pc = "done" /\ outcome = "error" /\ errCode = "NETWORK"
    /\ Cardinality({i \in 1..Len(attempts) : attempts[i].status = 401}) >= 2 =>
            pc = "done" /\ outcome = "error"

C26OneRefresh == ForcedRefreshes <= 1

\* C26: apiRequest terminates for every sequence of answers: a 429 is retried
\* at most 3 times, each time after the retry-after hint (1 second when
\* missing or invalid); a 401 leads to at most one forced token refresh and
\* retry; at most 5 HTTP attempts are made; a 429 after the retries are used
\* up raises NETWORK.
Cx_C26 == [](C26Bounds /\ C26OneRefresh) /\ <>(pc = "done")

----------------------------------------------------------------------------
(* Properties of the guarded apply under concurrent edits *)

\* the step issues the first mutating call of a non-forced apply that was
\* given an expectedSnapshot
FirstGuardedWrite ==
    /\ ~force /\ snapshotId # NoSnap
    /\ Writes(calls) = <<>> /\ Writes(calls') # <<>>

\* C27 as stated: when a non-forced apply with an expectedSnapshot issues its
\* first mutating call, the remote snapshot token still equals
\* expectedSnapshot.
Cx_C27 == [][FirstGuardedWrite => remoteSnap = snapshotId]_vars

\* the guard's re-fetch lets the apply pass only if the token it returns, when
\* it returns one, is expectedSnapshot, which then is the remote token
C27Guard ==
    (pc = "guard" /\ snapshotId # NoSnap /\ guardState' = "passed") =>
        \/ guardTok' = NoSnap
        \/ guardTok' = snapshotId /\ remoteSnap = snapshotId

\* the first mutating call directly follows a re-fetch that passed
C27Write ==
    FirstGuardedWrite =>
        /\ guardState = "passed"
        /\ calls[Len(calls)] = Call("GET", "playlist", <<>>)
        /\ guardTok = NoSnap \/ (guardTok = snapshotId /\ remoteSnap >= snapshotId)

\* C27 amended: a non-forced apply with an expectedSnapshot issues its first
\* mutating call only right after the guard's re-fetch, and the remote token
\* equalled expectedSnapshot at the moment of that re-fetch whenever the
\* answer carried a token; an edit made between the re-fetch and the write
\* is not detected and is overwritten.
Th_C27 == [][C27Guard /\ C27Write]_vars

W_C27 ==
    /\ pc = "done" /\ outcome = "returned" /\ result.applied
    /\ ~force /\ snapshotId = 1 /\ guardState = "passed" /\ guardTok = 1
    /\ edits = 1 /\ remoteSnap = 3
    /\ Len(calls) = 2
    /\ remoteItems = Replaced(desiredUris)

(* Properties of the transform commands under concurrent edits *)

\* the guard's re-fetch of a transform command, taken after the remote was
\* edited since the items were loaded
GuardAfterEdit ==
    /\ cmd.name = "transform"
    /\ pc = "guard" /\ pc' # "guard"
    /\ items # remoteItems

AbortsUnwritten ==
    /\ pc' = "done" /\ outcome' = "error"
    /\ Writes(calls') = <<>>
    /\ remoteItems' = remoteItems /\ remoteSnap' = remoteSnap

\* C28 as stated: a remote edit between the start of item loading and the
\* guard's re-fetch makes the non-forced apply of a transform command abort
\* without any write.
Cx_C28 == [][GuardAfterEdit => AbortsUnwritten]_vars

\* the playlist metadata (the token) is requested first, the items second
C28Order ==
    cmd.name = "transform" =>
        \A i \in 1..Len(calls) :
            calls[i] = Call("GET", "items", <<>>) =>
                i = 2 /\ calls[1] = Call("GET", "playlist", <<>>)

\* while the token read by the command is the remote's, the items the plan
\* was computed from are the remote's
C28Fresh ==
    (/\ cmd.name = "transform"
     /\ pc \notin {"cmd_start", "meta", "load", "done"}
     /\ Writes(calls) = <<>>
     /\ snapshotId # NoSnap /\ snapshotId = remoteSnap) =>
        /\ items = remoteItems
        /\ planned \in PlannerOutputs(plan, remoteItems)

\* the items are loaded from a remote at least as new as the token
C28Load ==
    (cmd.name = "transform" /\ pc = "load" /\ pc' = "apply_entry") =>
        /\ items' = remoteItems
        /\ snapshotId # NoSnap => snapshotId <= remoteSnap

\* an edit since the token was read is caught by a re-fetch that answers with
\* a token (or fails)
C28Guard ==
    (/\ cmd.name = "transform"
     /\ pc = "guard" /\ pc' # "guard"
     /\ snapshotId # NoSnap
     /\ items # remoteItems \/ remoteSnap # snapshotId
     /\ guardState' = "error" \/ guardTok' # NoSnap) =>
        /\ AbortsUnwritten
        /\ guardState' = "failed" => errCode' = "INVALID_USAGE"

\* C28 amended: in every transform command the token is read before the items
\* are loaded, so a remote edit between the start of item loading and the
\* guard's re-fetch makes a non-forced apply abort without any write, provided
\* the metadata answer carried a token and the guard's re-fetch answers with
\* one; the plan applied is never computed from items older than the token it
\* is guarded by.
Th_C28 == [](C28Order /\ C28Fresh) /\ [][C28Load /\ C28Guard]_vars

W_C28 ==
    /\ cmd.name = "transform" /\ apply /\ ~force
    /\ pc = "done" /\ outcome = "error" /\ errCode = "INVALID_USAGE"
    /\ snapshotId = 1 /\ remoteSnap = 2 /\ edits = 1
    /\ guardState = "failed" /\ guardTok = 2
    /\ items # remoteItems
    /\ Len(calls) = 3 /\ Writes(calls) = <<>>

(* Properties of a remote replace that fails part-way *)

RECURSIVE JoinBodies(_, _)
\* the bodies of the first n calls of ws, one after the other
JoinBodies(ws, n) == IF n = 0 THEN <<>> ELSE JoinBodies(ws, n - 1) \o ws[n].body

\* the apply ended because its chunk call number FailedCall failed
ChunkCallFailed == pc = "done" /\ outcome = "error" /\ Writes(calls) # <<>>
FailedCall == Len(Writes(calls))

\* the remote holds what the calls before the failed one wrote
HoldsSentBefore ==
    remoteItems = IF FailedCall = 1
                  THEN Replaced(beforeUris)
                  ELSE Replaced(JoinBodies(Writes(calls), FailedCall - 1))

\* the remote holds what the calls up to and including the failed one wrote
HoldsSentThrough == remoteItems = Replaced(JoinBodies(Writes(calls), FailedCall))

\* C29 as stated: with no other writer, after chunk call k failed the remote
\* holds exactly the concatenation of the chunks sent before k (the original
\* content when k is the first call).
Cx_C29 == (ChunkCallFailed /\ edits = 0) => HoldsSentBefore

\* the calls issued are the chunks in order, the failed one is the last, the
\* error is the request's and no applied result exists
C29Stop ==
    ChunkCallFailed =>
        LET parts == chunk(desiredUris, ChunkSize) IN
        /\ errCode \in ApiErrors
        /\ ~result.applied
        /\ calls[Len(calls)] = Writes(calls)[FailedCall]
        /\ FailedCall <= IF Len(parts) = 0 THEN 1 ELSE Len(parts)
        /\ \A i \in 1..FailedCall :
              /\ Writes(calls)[i].method = (IF i = 1 THEN "PUT" ELSE "POST")
              /\ Writes(calls)[i].body = (IF Len(parts) = 0 THEN <<>> ELSE parts[i])

C29Remote ==
    (ChunkCallFailed /\ edits = 0) =>
        /\ HoldsSentBefore \/ HoldsSentThrough
        /\ errCode # "NETWORK" => HoldsSentBefore

\* after the failure nothing more is called and nothing changes
C29Ended == ChunkCallFailed => UNCHANGED vars

\* C29 amended: if chunk call number k of a remote replace fails, no later
\* chunk call is issued, the error propagates and no ApplyResult with
\* applied=true is returned; with no other writer the remote is then left
\* holding exactly the concatenation of the chunks sent before k (the original
\* content when k is the first call) when call k was answered with an error,
\* and either that or the chunks sent up to and including k when call k got
\* no answer (timeout or network failure); never a mix of old and new items.
Th_C29 == [](C29Stop /\ C29Remote) /\ [][C29Ended]_vars

W_C29 ==
    /\ ChunkCallFailed /\ edits = 0
    /\ FailedCall = 2 /\ Len(chunk(desiredUris, ChunkSize)) = 3
    /\ errCode = "SPOTIFY_API"
    /\ beforeUris # <<>>
    /\ remoteItems = Replaced(chunk(desiredUris, ChunkSize)[1])

(* Properties of the account store *)

StoreIds == {store.accounts[i].id : i \in 1..Len(store.accounts)}

\* C30: starting from the empty store, after any sequence of upsertAccount,
\* setActiveAccount and removeAccount (calls failing with NOT_FOUND leave the
\* store unchanged) the account ids are pairwise distinct, active_account_id
\* is set whenever the store holds an account, and when set it is the id of
\* an account in the store.
C30Store ==
    /\ \A i, j \in 1..Len(store.accounts) :
          store.accounts[i].id = store.accounts[j].id => i = j
    /\ store.accounts # <<>> => store.active_account_id # ""
    /\ store.active_account_id # "" => store.active_account_id \in StoreIds

C30NotFound == errCode' = "NOT_FOUND" => store' = store

Th_C30 == []C30Store /\ [][C30NotFound]_vars

\* two accounts are left, the first of them active, one is named like the
\* other's id, and the last call failed with NOT_FOUND
W_C30 ==
    /\ Len(store.accounts) = 2
    /\ store.accounts[1].id = "b" /\ store.accounts[2].id = "a"
    /\ store.accounts[2].name = "b"
    /\ store.active_account_id = "b"
    /\ outcome = "error" /\ errCode = "NOT_FOUND"

====
